---------------------------- MODULE Spec2Model ----------------------------
(***************************************************************************)
(* A model of the stroke curve library: the generic Bezier curve           *)
(* (src/src/bezier.rs), the cubic Bezier curve (src/src/cubic_bezier.rs),  *)
(* the constructor of the B-spline (src/src/bspline.rs) and the reference  *)
(* point type PointN (src/src/point_generic.rs).                           *)
(*                                                                         *)
(* Scalars (NativeFloat) are modelled as rational numbers <<n, d>> in      *)
(* lowest terms with d > 0; see the section on scalars.                    *)
(***************************************************************************)
EXTENDS Integers, Sequences, FiniteSets, TLC

VARIABLES self, call, ret

vars == <<self, call, ret>>

-----------------------------------------------------------------------------
(* Bounds of the model *)

\* the first coordinate of a cubic curve's control point is in 0..MaxCoord
MaxCoord == 2

\* the first coordinate of a generic curve's control point is in 0..MaxCoordN
MaxCoordN == 1

\* parameters t are the multiples k/TDen
TDen == 4

\* generic curves have 1..MaxN control points
MaxN == 4

\* arclen is called with 1..MaxSteps steps
MaxSteps == 3

\* the solver's coefficients b, c, d are integers in -MaxCoef..MaxCoef
MaxCoef == 2

\* the solver's leading coefficient a is in 0..MaxLead
MaxLead == 1

\* the tolerances of is_linear and is_a_point are at most MaxTol
MaxTol == 1

\* BSpline::new is called with up to MaxCtrl control points, up to
\* MaxKnots knots and a degree in 0..MaxDegree or the largest usize
MaxCtrl == 3

MaxKnots == 6

MaxDegree == 3

\* the number of threads that evaluate a shared curve, and the number of
\* control points of that curve
MaxThreads == 2

MaxShared == 3

\* the slices searched by upper_bounds have up to MaxData elements with the
\* values 0..MaxKnotValue
MaxData == 4

MaxKnotValue == 2

-----------------------------------------------------------------------------
(* Scalars (NativeFloat).  A scalar is a rational <<n, d>> in lowest terms *)
-----------------------------------------------------------------------------
(* Scalars (NativeFloat).  A scalar is a rational <<n, d>> in lowest terms *)
(* with d > 0.  An operation is exact while numerator and denominator of   *)
(* its result stay below MaxNum; beyond that the result is rounded         *)
(* (towards zero) to a decimal with MantDigits significant digits and at   *)
(* most MantDigits decimal places, as f64 rounds to 53 bits.  No           *)
(* intermediate value is wider than 31 bits.                               *)

\* numerators and denominators are kept below 2^30
MaxNum == 1073741824

\* rounded scalars carry 9 decimal digits
MantDigits == 9

Abs(x) == IF x < 0 THEN -x ELSE x

Sign(x) == IF x < 0 THEN -1 ELSE 1

Min(a, b) == IF a < b THEN a ELSE b

Max(a, b) == IF a > b THEN a ELSE b

RECURSIVE Gcd(_, _)
Gcd(a, b) == IF b = 0 THEN a ELSE Gcd(b, a % b)

Pow10(k) == <<1, 10, 100, 1000, 10000, 100000, 1000000, 10000000,
              100000000, 1000000000>>[k + 1]

\* number of decimal digits of m >= 0 (0 for m = 0)
Digits(m) == Cardinality({k \in 0..9 : m >= Pow10(k)})

\* a * b fits below MaxNum (a, b >= 0)
Fits(a, b) == b = 0 \/ a <= (MaxNum - 1) \div b

\* the rational n/d (d /= 0) in lowest terms with a positive denominator
Rat(n, d) == <<(Sign(d) * n) \div Gcd(Abs(n), Abs(d)), Abs(d) \div Gcd(Abs(n), Abs(d))>>

Int2R(k) == <<k, 1>>

Zero == <<0, 1>>
One == <<1, 1>>

\* f64 unary `-`
RNeg(x) == <<-x[1], x[2]>>

\* f64 abs()
RAbs(x) == <<Abs(x[1]), x[2]>>

\* the rounded operations call one another through Call(op, args): op names
\* the operation, args is the tuple of its arguments
RECURSIVE Call(_, _)

FAdd(x, y) == Call("FAdd", <<x, y>>)
FMul(x, y) == Call("FMul", <<x, y>>)
FDiv(x, y) == Call("FDiv", <<x, y>>)
ToDec(x) == Call("ToDec", <<x>>)
Sqrt(x) == Call("Sqrt", <<x>>)
Cbrt(x) == Call("Cbrt", <<x>>)
Cos(x) == Call("Cos", <<x>>)
Acos(x) == Call("Acos", <<x>>)

\* the methods of the curves are called through Call as well
Bezier_eval(b, t) == Call("Bezier_eval", <<b, t>>)
Bezier_split(b, t) == Call("Bezier_split", <<b, t>>)
Bezier_derivative(b) == Call("Bezier_derivative", <<b>>)
CasteljauAssign(p, t, j) == Call("CasteljauAssign", <<p, t, j>>)
CubicBezier_eval(cb, t) == Call("CubicBezier_eval", <<cb, t>>)
eval_casteljau(cb, t) == Call("eval_casteljau", <<cb, t>>)
axis(cb, t, index) == Call("axis", <<cb, t, index>>)
arclen(cb, nsteps) == Call("arclen", <<cb, nsteps>>)
CubicBezier_split(cb, t) == Call("CubicBezier_split", <<cb, t>>)
CubicBezier_derivative(cb) == Call("CubicBezier_derivative", <<cb>>)
dd(cb, t, index) == Call("dd", <<cb, t, index>>)
real_roots(a, b, c, d) == Call("real_roots", <<a, b, c, d>>)
QuadraticBezier_real_roots(a, b, c) == Call("QuadraticBezier_real_roots", <<a, b, c>>)
bounding_box(cb) == Call("bounding_box", <<cb>>)
is_linear(cb, tolerance) == Call("is_linear", <<cb, tolerance>>)
is_a_point(cb, tolerance) == Call("is_a_point", <<cb, tolerance>>)

\* the largest digit g in 0..9 with P(g), for P downward closed and P(0)
MaxDigit(P(_)) ==
    IF P(5)
    THEN (IF P(7) THEN (IF P(9) THEN 9 ELSE IF P(8) THEN 8 ELSE 7)
          ELSE IF P(6) THEN 6 ELSE 5)
    ELSE (IF P(2) THEN (IF P(4) THEN 4 ELSE IF P(3) THEN 3 ELSE 2)
          ELSE IF P(1) THEN 1 ELSE 0)

\* a wide number <<h, l>> stands for h * 10^5 + l; x * g for 0 <= g <= 10
WideTimes(x, g) ==
    <<g * (x \div 100000) + (g * (x % 100000)) \div 100000, (g * (x % 100000)) % 100000>>

WideLe(u, v) == u[1] < v[1] \/ (u[1] = v[1] /\ u[2] <= v[2])

\* the product of a, b < 2^30 as <<h, m, l>> standing for h * 2^30 + m * 2^15 + l
WideMul(a, b) ==
    LET ah == a \div 32768
        al == a % 32768
        bh == b \div 32768
        bl == b % 32768
        t1 == ah * bl + al * bh + (al * bl) \div 32768
    IN  <<ah * bh + t1 \div 32768, t1 % 32768, (al * bl) % 32768>>

\* -1, 0 or 1 as u is below, equal to or above v
WideCmp(u, v) ==
    IF u[1] /= v[1] THEN (IF u[1] < v[1] THEN -1 ELSE 1)
    ELSE IF u[2] /= v[2] THEN (IF u[2] < v[2] THEN -1 ELSE 1)
    ELSE IF u[3] /= v[3] THEN (IF u[3] < v[3] THEN -1 ELSE 1)
    ELSE 0

\* -1, 0 or 1 as x is less than, equal to or greater than y (exact): the
\* integer parts, then the fractional parts by cross multiplication
Cmp(x, y) ==
    IF x[1] \div x[2] /= y[1] \div y[2]
    THEN (IF x[1] \div x[2] < y[1] \div y[2] THEN -1 ELSE 1)
    ELSE WideCmp(WideMul(x[1] % x[2], y[2]), WideMul(y[1] % y[2], x[2]))

\* f64 `<`, `<=`, `>`, `>=`
RLt(x, y) == Cmp(x, y) < 0
RLe(x, y) == Cmp(x, y) <= 0
RGt(x, y) == Cmp(x, y) > 0
RGe(x, y) == Cmp(x, y) >= 0

\* the digits the long division by d produces at a step when k are wanted:
\* as many as keep the remainder times their power of ten below 2^30
DigitsAtOnce(d, k) ==
    IF Digits(d) < MantDigits THEN Min(k, MantDigits - Digits(d)) ELSE 1

\* the step of one digit g, from the remainder times ten r10 (wide)
DivStepDigit(d, qr, r10, g) ==
    <<qr[1] * 10 + g,
      (r10[1] - WideTimes(d, g)[1]) * 100000 + (r10[2] - WideTimes(d, g)[2])>>

DivStepWide(d, qr, r10) ==
    DivStepDigit(d, qr, r10, MaxDigit(LAMBDA e : WideLe(WideTimes(d, e), r10)))

\* a step of the long division by d: from quotient and remainder qr to
\* the quotient with c more digits, and its remainder
DivStep(d, qr, c) ==
    IF Digits(d) < MantDigits
    THEN <<qr[1] * Pow10(c) + (qr[2] * Pow10(c)) \div d, (qr[2] * Pow10(c)) % d>>
    ELSE DivStepWide(d, qr, WideTimes(qr[2], 10))

\* the long division by d > 0 continued for k digits; a remainder of zero
\* leaves zeros only
RECURSIVE DivDigits(_, _, _)
DivDigits(d, qr, k) ==
    IF k = 0 \/ qr[2] = 0 THEN <<qr[1] * Pow10(k), qr[2]>>
    ELSE DivDigits(d, DivStep(d, qr, DigitsAtOnce(d, k)), k - DigitsAtOnce(d, k))

\* floor(n * 10^k / d) for n >= 0, d > 0
LongDiv(n, d, k) == DivDigits(d, <<n \div d, n % d>>, k)[1]

\* the product of a, b < 10^9 as six digits of base 1000, lowest first
DecProd(a, b) ==
    LET a0 == a % 1000
        a1 == (a \div 1000) % 1000
        a2 == a \div 1000000
        b0 == b % 1000
        b1 == (b \div 1000) % 1000
        b2 == b \div 1000000
        t0 == a0 * b0
        t1 == a0 * b1 + a1 * b0 + t0 \div 1000
        t2 == a0 * b2 + a1 * b1 + a2 * b0 + t1 \div 1000
        t3 == a1 * b2 + a2 * b1 + t2 \div 1000
        t4 == a2 * b2 + t3 \div 1000
    IN  <<t0 % 1000, t1 % 1000, t2 % 1000, t3 % 1000, t4 % 1000, t4 \div 1000>>

\* number of decimal digits of the base-1000 number w
DecProdDigits(w) ==
    IF \A i \in 1..6 : w[i] = 0 THEN 0
    ELSE 3 * (Cardinality({i \in 1..6 : \E j \in i..6 : w[j] /= 0}) - 1)
         + Digits(w[Cardinality({i \in 1..6 : \E j \in i..6 : w[j] /= 0})])

\* floor(w / 10^j) of the base-1000 number w, 0 <= j <= 9
DecProdShift(w, j) ==
    LET q == j \div 3
        r == j % 3
        e(i) == IF i + q <= 5 THEN w[i + q + 1] ELSE 0
    IN  e(0) \div Pow10(r) + e(1) * Pow10(3 - r) + e(2) * Pow10(6 - r)
        + (IF e(3) = 0 THEN 0 ELSE e(3) * Pow10(9 - r))

\* the decimal <<m, k>> stands for m / 10^k; as a scalar, by the powers of
\* two and five that divide both m and 10^k
FromDecBy(m, g) == <<m[1] \div g, Pow10(m[2]) \div g>>

FromDec(m) ==
    FromDecBy(m, (2 ^ Cardinality({j \in 1..m[2] : m[1] % (2 ^ j) = 0}))
                 * (5 ^ Cardinality({j \in 1..m[2] : m[1] % (5 ^ j) = 0})))

\* the decimal exponent k of a scalar that is a decimal m / 10^k with
\* m < 10^MantDigits, or -1 when it is none
DecExpAt(x, k) ==
    IF k <= MantDigits /\ Abs(x[1]) <= (Pow10(MantDigits) - 1) \div (Pow10(k) \div x[2])
    THEN k ELSE -1

DecExp(x) == DecExpAt(x, MantDigits + 1 - Cardinality({k \in 0..MantDigits : Pow10(k) % x[2] = 0}))

\* n/d rounded towards zero to MantDigits significant digits, as <<m, k>>
\* standing for m / 10^k (0 <= k <= MantDigits)
RoundDec(n, d) ==
    <<Sign(n) * LongDiv(Abs(n), d, MantDigits - Digits(Abs(n) \div d)),
      MantDigits - Digits(Abs(n) \div d)>>

\* a scalar as a decimal <<m, k>>, exact when it is one
ToDecBody(x) ==
    IF DecExp(x) >= 0 THEN <<x[1] * (Pow10(DecExp(x)) \div x[2]), DecExp(x)>>
    ELSE RoundDec(x[1], x[2])

\* digits of the integer part of the decimal m
IntDigits(m) == Digits(Abs(m[1]) \div Pow10(m[2]))

\* the decimal m on the grid 10^-k, truncated towards zero
Align(m, k) ==
    IF k >= m[2] THEN m[1] * Pow10(k - m[2])
    ELSE Sign(m[1]) * (Abs(m[1]) \div Pow10(m[2] - k))

\* the sum s / 10^k, cut to MantDigits digits
FAddSum(s, k) ==
    IF Abs(s) >= Pow10(MantDigits)
    THEN FromDec(<<Sign(s) * (Abs(s) \div 10), k - 1>>)
    ELSE FromDec(<<s, k>>)

FAddAt(a, b, k) == FAddSum(Align(a, k) + Align(b, k), k)

\* the sum of two decimals, on the finest grid that holds both integer parts
FAddDec(a, b) ==
    IF a[1] = 0 THEN FromDec(b)
    ELSE IF b[1] = 0 THEN FromDec(a)
    ELSE FAddAt(a, b, Min(Max(a[2], b[2]), MantDigits - Max(IntDigits(a), IntDigits(b))))

FAddBody(x, y) == FAddDec(ToDec(x), ToDec(y))

\* the product w / 10^k with sign sg keeps MantDigits digits when it has
\* that many
FMulShift(sg, k, w, j) == FromDec(<<sg * DecProdShift(w, j), k - j>>)

FMulProd(sg, k, w) == FMulShift(sg, k, w, Max(0, Max(k, DecProdDigits(w)) - MantDigits))

FMulDec(a, b) ==
    IF a[1] = 0 \/ b[1] = 0 THEN Zero
    ELSE FMulProd(Sign(a[1]) * Sign(b[1]), a[2] + b[2], DecProd(Abs(a[1]), Abs(b[1])))

FMulBody(x, y) == FMulDec(ToDec(x), ToDec(y))

\* the quotient q / 10^k with sign sg
FDivResult(sg, k, q) == IF q = 0 THEN Zero ELSE FromDec(<<sg * q, k>>)

\* the quotient of m / 10^e by d with j more decimal places (fewer when
\* j < 0)
FDivQuot(sg, m, e, d, j) ==
    FDivResult(sg, e + j,
               IF j >= 0 THEN LongDiv(m, d, j)
               ELSE IF -j > MantDigits THEN 0
               ELSE (m \div Pow10(-j)) \div d)

\* the quotient keeps MantDigits digits when the exponent allows: one
\* place more than the digits of d when m is below d's leading digits
FDivAt(sg, m, k, d, kd, jmax, j0) ==
    FDivQuot(sg, m, k - kd, d,
             IF j0 >= 0 /\ j0 < jmax /\ m < d * Pow10(MantDigits - Digits(d))
             THEN j0 + 1 ELSE j0)

FDivPlaces(sg, m, k, d, kd, jmax) == FDivAt(sg, m, k, d, kd, jmax, Min(Digits(d) - 1, jmax))

FDivWide(sg, m, k, d, kd) ==
    FDivPlaces(sg, m, k, d, kd, Min(MantDigits, MantDigits + kd - k))

\* the quotient of two decimals (b /= 0): the dividend is first widened to
\* MantDigits digits
FDivDec(a, b) ==
    IF a[1] = 0 THEN Zero
    ELSE FDivWide(Sign(a[1]) * Sign(b[1]),
                  Abs(a[1]) * Pow10(MantDigits - Digits(Abs(a[1]))),
                  a[2] + MantDigits - Digits(Abs(a[1])),
                  Abs(b[1]), b[2])

FDivBody(x, y) == FDivDec(ToDec(x), ToDec(y))

\* the exact sum r when it fits
RAddExact(x, y, r) == IF Abs(r[1]) < MaxNum THEN r ELSE FAdd(x, y)

\* the sum over the common denominator e2 * y[2], where e1 = y[2] / g and
\* e2 = x[2] / g for the greatest common divisor g of the denominators
RAddOver(x, y, e1, e2) ==
    IF Fits(Abs(x[1]), e1) /\ Fits(Abs(y[1]), e2) /\ Fits(e2, y[2])
    THEN RAddExact(x, y, Rat(x[1] * e1 + y[1] * e2, e2 * y[2]))
    ELSE FAdd(x, y)

\* f64 `+`
RAdd(x, y) ==
    IF x[1] = 0 THEN y
    ELSE IF y[1] = 0 THEN x
    ELSE RAddOver(x, y, y[2] \div Gcd(x[2], y[2]), x[2] \div Gcd(x[2], y[2]))

\* f64 `-`
RSub(x, y) == RAdd(x, RNeg(y))

\* the product (n1 * n2) / (d1 * d2) of the cancelled factors
RMulOf(x, y, n1, n2, d1, d2) ==
    IF Fits(Abs(n1), Abs(n2)) /\ Fits(d1, d2) THEN <<n1 * n2, d1 * d2>> ELSE FMul(x, y)

RMulBy(x, y, g1, g2) == RMulOf(x, y, x[1] \div g1, y[1] \div g2, x[2] \div g2, y[2] \div g1)

\* f64 `*`
RMul(x, y) ==
    IF x[1] = 0 \/ y[1] = 0 THEN Zero
    ELSE RMulBy(x, y, Gcd(Abs(x[1]), y[2]), Gcd(Abs(y[1]), x[2]))

\* the quotient (n1 * n2) / (d1 * d2) of the cancelled factors
RDivOf(x, y, n1, n2, d1, d2) ==
    IF Fits(Abs(n1), n2) /\ Fits(d1, Abs(d2))
    THEN <<Sign(d2) * n1 * n2, d1 * Abs(d2)>>
    ELSE FDiv(x, y)

RDivBy(x, y, g1, g2) == RDivOf(x, y, x[1] \div g1, y[2] \div g2, x[2] \div g2, y[1] \div g1)

\* f64 `/` (y /= 0)
RDiv(x, y) ==
    IF x[1] = 0 THEN Zero
    ELSE RDivBy(x, y, Gcd(Abs(x[1]), Abs(y[1])), Gcd(x[2], y[2]))

-----------------------------------------------------------------------------
(* The elementary functions of f64.  Each returns the decimal of           *)
(* MantDigits digits found digit by digit, or by its power series.         *)

\* floor of the square root of the integer 0 <= n < 2^30, digit by digit:
\* p is the place of the next digit
RECURSIVE ISqrtDigits(_, _, _)
ISqrtDigits(n, acc, p) ==
    IF p = 0 \/ acc * acc = n THEN acc
    ELSE ISqrtDigits(n,
                     acc + p * MaxDigit(LAMBDA e : acc + p * e < 32768
                                                   /\ (acc + p * e) * (acc + p * e) <= n),
                     p \div 10)

ISqrt(n) == ISqrtDigits(n, 0, 10000)

\* floor of the cube root of the integer 0 <= n < 2^30
RECURSIVE ICbrtDigits(_, _, _)
ICbrtDigits(n, acc, p) ==
    IF p = 0 \/ acc * acc * acc = n THEN acc
    ELSE ICbrtDigits(n,
                     acc + p * MaxDigit(LAMBDA e : acc + p * e < 1024
                                                   /\ (acc + p * e) * (acc + p * e) * (acc + p * e) <= n),
                     p \div 10)

ICbrt(n) == ICbrtDigits(n, 0, 1000)

Square(y) == FMul(y, y)

Cube(y) == FMul(FMul(y, y), y)

\* the largest m < 10^MantDigits with (m / 10^k)^2 <= x, digit by digit:
\* acc holds the digits before the n-th
RECURSIVE SqrtDigits(_, _, _, _)
SqrtDigits(x, k, acc, n) ==
    IF n > MantDigits \/ acc >= Pow10(MantDigits) THEN acc
    ELSE SqrtDigits(x, k,
                    acc + Pow10(MantDigits - n)
                          * MaxDigit(LAMBDA e : RLe(Square(FromDec(<<acc + e * Pow10(MantDigits - n), k>>)), x)),
                    n + 1)

\* the root of x from the integer roots rn, rd of its numerator and
\* denominator when these are exact, else with the k decimal places that
\* give MantDigits digits
SqrtOf(x, rn, rd, k) ==
    IF rn * rn = x[1] /\ rd * rd = x[2] THEN <<rn, rd>>
    ELSE FromDec(<<SqrtDigits(x, k, 0, 1), k>>)

\* f64 sqrt(), x >= 0
SqrtBody(x) ==
    SqrtOf(x, ISqrt(x[1]), ISqrt(x[2]), MantDigits - Digits(ISqrt(x[1] \div x[2])))

\* the largest m < 10^MantDigits with (m / 10^k)^3 <= x
RECURSIVE CbrtDigits(_, _, _, _)
CbrtDigits(x, k, acc, n) ==
    IF n > MantDigits \/ acc >= Pow10(MantDigits) THEN acc
    ELSE CbrtDigits(x, k,
                    acc + Pow10(MantDigits - n)
                          * MaxDigit(LAMBDA e : RLe(Cube(FromDec(<<acc + e * Pow10(MantDigits - n), k>>)), x)),
                    n + 1)

CbrtOf(x, rn, rd, k) ==
    IF rn * rn * rn = x[1] /\ rd * rd * rd = x[2] THEN <<rn, rd>>
    ELSE FromDec(<<CbrtDigits(x, k, 0, 1), k>>)

\* f64 powf(1/3), x >= 0
CbrtBody(x) ==
    CbrtOf(x, ICbrt(x[1]), ICbrt(x[2]), MantDigits - Digits(ICbrt(x[1] \div x[2])))

\* the circle constant as the math library knows it
LibPi == <<314159265, 100000000>>

TwoPi == <<314159265, 50000000>>

\* the cosine series 1 - y^2/2! + y^4/4! - ... runs up to y^(2 * CosTerms)
CosTerms == 9

\* the state <<term, sum, changed>> of the series after one more term
CosState(next, sum, s2) == <<next, s2, s2 /= sum>>

CosAdd(sum, next) == CosState(next, sum, RAdd(sum, next))

CosStep(y2, st, i) ==
    CosAdd(st[2], RNeg(RDiv(RMul(st[1], y2), Int2R((2 * i - 1) * (2 * i)))))

\* the series stops early once a term no longer changes the sum
RECURSIVE CosSeries(_, _, _)
CosSeries(y2, st, i) ==
    IF i > CosTerms \/ ~st[3] THEN st[2]
    ELSE CosSeries(y2, CosStep(y2, st, i), i + 1)

\* the cosine of 0 <= y <= pi/2
CosAcute(y) == CosSeries(RMul(y, y), <<One, One, TRUE>>, 1)

\* the cosine of 0 <= a <= pi
CosHalfTurn(a) ==
    IF RGt(RMul(Int2R(2), a), LibPi) THEN RNeg(CosAcute(RSub(LibPi, a))) ELSE CosAcute(a)

\* the cosine of 0 <= a <= 2 * pi
CosTurn(a) == CosHalfTurn(IF RGt(a, LibPi) THEN RSub(TwoPi, a) ELSE a)

\* the cosine of 0 <= a < 4 * pi
CosPositive(a) == CosTurn(IF RGe(a, TwoPi) THEN RSub(a, TwoPi) ELSE a)

\* f64 cos(), for |x| < 4 * pi
CosBody(x) == IF x[1] = 0 THEN One ELSE CosPositive(RAbs(x))

HalfPi == <<314159265, 200000000>>

\* the arcsine series z + z^3/6 + 3 z^5/40 + ... runs up to z^(2 * AsinTerms + 1)
AsinTerms == 16

\* term n of the series from term n - 1
AsinStep(z2, st, n) ==
    CosAdd(st[2], RDiv(RMul(RMul(st[1], z2), Int2R((2 * n - 1) * (2 * n - 1))),
                       Int2R((2 * n) * (2 * n + 1))))

RECURSIVE AsinSeries(_, _, _)
AsinSeries(z2, st, n) ==
    IF n > AsinTerms \/ ~st[3] THEN st[2]
    ELSE AsinSeries(z2, AsinStep(z2, st, n), n + 1)

\* the arcsine of 0 <= z <= 1/2 ... sqrt(1/2)
Asin(z) == AsinSeries(RMul(z, z), <<z, z, TRUE>>, 1)

\* the arccosine of 0 <= x <= 1: pi/2 - asin(x) for the small x, and
\* 2 asin(sqrt((1 - x) / 2)) for the others
AcosAcute(x) ==
    IF RLe(RMul(Int2R(2), x), One) THEN RSub(HalfPi, Asin(x))
    ELSE RMul(Int2R(2), Asin(Sqrt(RDiv(RSub(One, x), Int2R(2)))))

\* f64 acos(), -1 <= x <= 1
AcosBody(x) ==
    IF x = One THEN Zero
    ELSE IF x = RNeg(One) THEN LibPi
    ELSE IF x[1] < 0 THEN RSub(LibPi, AcosAcute(RNeg(x)))
    ELSE AcosAcute(x)

-----------------------------------------------------------------------------
(* PointN<T, N>: a point is a sequence of N scalars *)

PAdd(p, q) == [i \in 1..Len(p) |-> RAdd(p[i], q[i])]

PSub(p, q) == [i \in 1..Len(p) |-> RSub(p[i], q[i])]

PMul(p, k) == [i \in 1..Len(p) |-> RMul(p[i], k)]

\* Point::axis, with the 0-based index of the code
PAxis(p, index) == p[index + 1]

\* Point::squared_length: the loop `for i in 0..N` from sqr_dist = 0.0
RECURSIVE SquaredLengthLoop(_, _)
SquaredLengthLoop(p, n) ==
    IF n = 0 THEN Zero
    ELSE RAdd(SquaredLengthLoop(p, n - 1), RMul(p[n], p[n]))

squared_length(p) == SquaredLengthLoop(p, Len(p))

-----------------------------------------------------------------------------
(* Bezier<P, N>: a record with the one field control_points, the sequence   *)
(* of the N control points. The code's arrays are 0-based; index j of the  *)
(* code is j + 1 here.                                                     *)

Bezier_new(control_points) == [control_points |-> control_points]

\* a variant of the statement with the two weights exchanged
CasteljauAssignSwapped(p, t, j) ==
    [p EXCEPT ![j + 1] = PAdd(PMul(p[j + 1], t), PMul(p[j + 2], RSub(One, t)))]

\* the statement p[j] = p[j] * (1.0 - t) + p[j+1] * t
CasteljauAssign_impl(p, t, j) ==
    [p EXCEPT ![j + 1] = PAdd(PMul(p[j + 1], RSub(One, t)), PMul(p[j + 2], t))]

\* one pass of the inner loop `for j in 0..p.len() - i`, run sequentially
\* on the scratch array
RECURSIVE CasteljauPass(_, _, _, _)
CasteljauPass(p, t, j, n) ==
    IF j >= n THEN p
    ELSE CasteljauPass(CasteljauAssign(p, t, j), t, j + 1, n)

RECURSIVE BezierEvalLoop(_, _, _)
BezierEvalLoop(p, t, i) ==
    IF i > Len(p) THEN p
    ELSE BezierEvalLoop(CasteljauPass(p, t, 0, Len(p) - i), t, i + 1)

\* Bezier::eval: the loops run on p, a copy of the control points
Bezier_eval_impl(b, t) == BezierEvalLoop(b.control_points, t, 1)[1]

RECURSIVE BezierSplitLoop(_, _, _, _, _)
BezierSplitLoop(left, right, cas, t, i) ==
    IF i > Len(cas) THEN <<left, right>>
    ELSE BezierSplitLoop([left EXCEPT ![i] = cas[1]],
                         [right EXCEPT ![Len(cas) - i + 1] = cas[Len(cas) - i + 1]],
                         CasteljauPass(cas, t, 0, Len(cas) - i), t, i + 1)

SplitResult(halves) == <<Bezier_new(halves[1]), Bezier_new(halves[2])>>

\* a variant of split that never stores the end points of the levels in right
BezierSplitStaleRight(b, t) ==
    SplitResult(<<BezierSplitLoop(b.control_points, b.control_points, b.control_points, t, 1)[1],
                  b.control_points>>)

\* Bezier::split: left, right and casteljau_points start as three copies
Bezier_split_impl(b, t) ==
    SplitResult(BezierSplitLoop(b.control_points, b.control_points, b.control_points, t, 1))

\* the outcome of an out-of-bounds array access
Panic == [panic |-> TRUE]

\* Bezier::derivative: the loop reads control_points[i + 1] before it tests
\* `i == len - 2`, so a curve of one point indexes out of bounds
DerivativePoints(cp) ==
    [i \in 1..(Len(cp) - 1) |-> PMul(PSub(cp[i + 1], cp[i]), Int2R(Len(cp)))]

Bezier_derivative_impl(b) ==
    IF Len(b.control_points) < 2 THEN Panic
    ELSE Bezier_new(DerivativePoints(b.control_points))

-----------------------------------------------------------------------------
(* CubicBezier<P>: a record of the four points start, ctrl1, ctrl2, end *)

CubicBezier_new(start, ctrl1, ctrl2, end) ==
    [start |-> start, ctrl1 |-> ctrl1, ctrl2 |-> ctrl2, end |-> end]

\* the Bernstein sum of eval, with one_t for the code's (1.0-t)
EvalBernstein(cb, t, one_t) ==
    PAdd(PAdd(PAdd(PMul(cb.start, RMul(RMul(one_t, one_t), one_t)),
                   PMul(cb.ctrl1, RMul(RMul(RMul(Int2R(3), t), one_t), one_t))),
              PMul(cb.ctrl2, RMul(RMul(RMul(Int2R(3), t), t), one_t))),
         PMul(cb.end, RMul(RMul(t, t), t)))

\* a variant of eval without the binomial factor 3 of the ctrl2 term
CubicEvalNoBinomial(cb, t) ==
    PAdd(PAdd(PAdd(PMul(cb.start, RMul(RMul(RSub(One, t), RSub(One, t)), RSub(One, t))),
                   PMul(cb.ctrl1, RMul(RMul(RMul(Int2R(3), t), RSub(One, t)), RSub(One, t)))),
              PMul(cb.ctrl2, RMul(RMul(t, t), RSub(One, t)))),
         PMul(cb.end, RMul(RMul(t, t), t)))

\* CubicBezier::eval, the Bernstein form
CubicBezier_eval_impl(cb, t) == EvalBernstein(cb, t, RSub(One, t))

\* a + (b - a) * t
Lerp(a, b, t) == PAdd(a, PMul(PSub(b, a), t))

\* the third pass of the unrolled De Casteljau algorithm
CasteljauThird(t, ctrl_1ab, ctrl_1cd, ctrl_2ab, ctrl_2bc) ==
    [ctrl_1ab |-> ctrl_1ab, ctrl_1cd |-> ctrl_1cd, ctrl_2ab |-> ctrl_2ab,
     ctrl_2bc |-> ctrl_2bc, ctrl_3ab |-> Lerp(ctrl_2ab, ctrl_2bc, t)]

\* the second pass
CasteljauSecond(t, ctrl_1ab, ctrl_1bc, ctrl_1cd) ==
    CasteljauThird(t, ctrl_1ab, ctrl_1cd,
                   Lerp(ctrl_1ab, ctrl_1bc, t), Lerp(ctrl_1bc, ctrl_1cd, t))

\* the three passes of the unrolled De Casteljau algorithm, shared by
\* eval_casteljau and split
Casteljau3(cb, t) ==
    CasteljauSecond(t, Lerp(cb.start, cb.ctrl1, t), Lerp(cb.ctrl1, cb.ctrl2, t),
                    Lerp(cb.ctrl2, cb.end, t))

\* a variant that stops after the second pass
EvalCasteljauTwoPasses(cb, t) == Casteljau3(cb, t).ctrl_2ab

eval_casteljau_impl(cb, t) == Casteljau3(cb, t).ctrl_3ab

\* the sum of axis from the powers of t and of one_t = 1 - t
AxisSum(cb, index, t, t2, t3, one_t, one_t2, one_t3) ==
    RAdd(RAdd(RAdd(RMul(PAxis(cb.start, index), one_t3),
                   RMul(RMul(RMul(PAxis(cb.ctrl1, index), Int2R(3)), one_t2), t)),
              RMul(RMul(RMul(PAxis(cb.ctrl2, index), Int2R(3)), one_t), t2)),
         RMul(PAxis(cb.end, index), t3))

AxisPowers(cb, index, t, t2, one_t, one_t2) ==
    AxisSum(cb, index, t, t2, RMul(t2, t), one_t, one_t2, RMul(one_t2, one_t))

AxisSquares(cb, index, t, one_t) ==
    AxisPowers(cb, index, t, RMul(t, t), one_t, RMul(one_t, one_t))

\* a variant of axis that evaluates the first coordinate whatever the index
AxisOfFirst(cb, t, index) == AxisSquares(cb, 0, t, RSub(One, t))

\* CubicBezier::axis
axis_impl(cb, t, index) == AxisSquares(cb, index, t, RSub(One, t))

\* the chord from the sample at tt to the sample one stepsize further
ArclenSegment(cb, tt, stepsize) ==
    Sqrt(squared_length(PSub(eval_casteljau(cb, tt), eval_casteljau(cb, RAdd(tt, stepsize)))))

\* the body of the loop `for t in 1..nsteps` of arclen
ArclenChord(cb, nsteps, t) ==
    ArclenSegment(cb, RDiv(RMul(Int2R(t), One), Int2R(nsteps)), RDiv(One, Int2R(nsteps)))

\* arclen after the iterations t = 1, ..., upto of the loop
RECURSIVE ArclenLoop(_, _, _)
ArclenLoop(cb, nsteps, upto) ==
    IF upto < 1 THEN Zero
    ELSE RAdd(ArclenLoop(cb, nsteps, upto - 1), ArclenChord(cb, nsteps, upto))

\* CubicBezier::arclen (nsteps >= 1): the range 1..nsteps ends at nsteps - 1
arclen_impl(cb, nsteps) == ArclenLoop(cb, nsteps, nsteps - 1)

\* a variant of the result whose right half starts one level early
SplitAtDisjoint(cb, c) ==
    <<CubicBezier_new(cb.start, c.ctrl_1ab, c.ctrl_2ab, c.ctrl_3ab),
      CubicBezier_new(c.ctrl_2bc, c.ctrl_2bc, c.ctrl_1cd, cb.end)>>

SplitAt(cb, c) ==
    <<CubicBezier_new(cb.start, c.ctrl_1ab, c.ctrl_2ab, c.ctrl_3ab),
      CubicBezier_new(c.ctrl_3ab, c.ctrl_2bc, c.ctrl_1cd, cb.end)>>

\* a variant of split with the two inner points of the right half exchanged
CubicSplitSwapped(cb, t) ==
    <<SplitAt(cb, Casteljau3(cb, t))[1],
      CubicBezier_new(Casteljau3(cb, t).ctrl_3ab, Casteljau3(cb, t).ctrl_1cd,
                      Casteljau3(cb, t).ctrl_2bc, cb.end)>>

CubicBezier_split_impl(cb, t) == SplitAt(cb, Casteljau3(cb, t))

\* CubicBezier::derivative: a QuadraticBezier, a record start, ctrl, end
CubicBezier_derivative_impl(cb) ==
    [start |-> PMul(PSub(cb.ctrl1, cb.start), Int2R(3)),
     ctrl |-> PMul(PSub(cb.ctrl2, cb.ctrl1), Int2R(3)),
     end |-> PMul(PSub(cb.end, cb.ctrl2), Int2R(3))]

\* the sum of dd with the coefficients c0..c3 as the code computes them
DdSum(cb, index, c0, c1, c2, c3) ==
    RAdd(RAdd(RAdd(RMul(PAxis(cb.start, index), c0),
                   RMul(PAxis(cb.ctrl1, index), c1)),
              RMul(PAxis(cb.ctrl2, index), c2)),
         RMul(PAxis(cb.end, index), c3))

DdCoefficients(cb, index, t, t2) ==
    DdSum(cb, index,
          RSub(RAdd(RMul(Int2R(-3), t), RMul(Int2R(6), t)), Int2R(3)),
          RAdd(RSub(RMul(Int2R(9), t2), RMul(Int2R(12), t)), Int2R(3)),
          RAdd(RMul(Int2R(-9), t2), RMul(Int2R(6), t)),
          RMul(Int2R(3), t2))

\* CubicBezier::dd
dd_impl(cb, t, index) == DdCoefficients(cb, index, t, RMul(t, t))

-----------------------------------------------------------------------------
(* The polynomial solver of CubicBezier and the bounding box *)

\* the crate's fixed epsilon for "approximately zero"
EPSILON == <<1, 1000000000>>

\* f64 signum(): 1.0 for +0.0 and every positive number
Signum(x) == IF x[1] < 0 THEN RNeg(One) ELSE One

\* the two roots pushed for delta > 0
QuadraticTwoRoots(b, c, sqrt_delta) ==
    <<RDiv(RSub(RNeg(c), sqrt_delta), RMul(Int2R(2), b)),
      RDiv(RAdd(RNeg(c), sqrt_delta), RMul(Int2R(2), b))>>

\* a variant of the quadratic branch without the case of the double root
QuadraticRootsNoDouble(b, c, delta) ==
    IF RGt(delta, Zero) THEN QuadraticTwoRoots(b, c, Sqrt(delta)) ELSE <<>>

\* the quadratic equation b t^2 + c t + d by the sign of its discriminant
QuadraticRoots(b, c, delta) ==
    IF RGt(delta, Zero) THEN QuadraticTwoRoots(b, c, Sqrt(delta))
    ELSE IF RLt(RAbs(delta), EPSILON) THEN <<RDiv(RNeg(c), RMul(Int2R(2), b))>>
    ELSE <<>>

\* the branch `a.abs() < EPSILON` of real_roots: equations below cubic order
LowDegreeRoots(b, c, d) ==
    IF RLt(RAbs(b), EPSILON)
    THEN IF RLt(RAbs(c), EPSILON) THEN <<>>
         ELSE <<RDiv(RNeg(d), c)>>
    ELSE QuadraticRoots(b, c, RSub(RMul(c, c), RMul(RMul(Int2R(4), b), d)))

\* the constant pi of real_roots
pi == Rat(3141592, 1000000)

frac_1_3 == RDiv(One, Int2R(3))

\* a variant that pushes the second root whenever s and t are close
CardanoSTRepeated(bn, s, t) ==
    IF RLt(RAbs(RSub(s, t)), EPSILON)
    THEN <<RAdd(RMul(RNeg(bn), frac_1_3), RAdd(s, t)),
           RSub(RMul(RNeg(bn), frac_1_3), RDiv(RAdd(s, t), Int2R(2)))>>
    ELSE <<RAdd(RMul(RNeg(bn), frac_1_3), RAdd(s, t))>>

\* the pushes of the branch delta_01 >= 0 from s and t
CardanoST(bn, s, t) ==
    IF RLt(RAbs(RSub(s, t)), EPSILON) /\ RGe(RAbs(RAdd(s, t)), EPSILON)
    THEN <<RAdd(RMul(RNeg(bn), frac_1_3), RAdd(s, t)),
           RSub(RMul(RNeg(bn), frac_1_3), RDiv(RAdd(s, t), Int2R(2)))>>
    ELSE <<RAdd(RMul(RNeg(bn), frac_1_3), RAdd(s, t))>>

CardanoOneRoot(bn, delta_p_sqrt, delta_m_sqrt) ==
    CardanoST(bn, RMul(Signum(delta_p_sqrt), Cbrt(RAbs(delta_p_sqrt))),
                  RMul(Signum(delta_m_sqrt), Cbrt(RAbs(delta_m_sqrt))))

\* the root two_sqrt_delta0 * cos((theta + turn) * frac_1_3) - bn * frac_1_3
CardanoTrigRoot(bn, theta, two_sqrt_delta0, turn) ==
    RSub(RMul(two_sqrt_delta0, Cos(RMul(RAdd(theta, turn), frac_1_3))),
         RMul(bn, frac_1_3))

\* the three pushes of the branch delta_01 < 0
CardanoThreeRoots(bn, theta, two_sqrt_delta0) ==
    <<RSub(RMul(two_sqrt_delta0, Cos(RMul(theta, frac_1_3))), RMul(bn, frac_1_3)),
      CardanoTrigRoot(bn, theta, two_sqrt_delta0, RMul(Int2R(2), pi)),
      CardanoTrigRoot(bn, theta, two_sqrt_delta0, RMul(Int2R(4), pi))>>

CardanoSqrt(bn, delta1, sqrt_delta_01) ==
    CardanoOneRoot(bn, RAdd(delta1, sqrt_delta_01), RSub(delta1, sqrt_delta_01))

CardanoBranch(bn, delta0, delta1, delta_01) ==
    IF RGe(delta_01, Zero) THEN CardanoSqrt(bn, delta1, Sqrt(delta_01))
    ELSE CardanoThreeRoots(bn,
             Acos(RDiv(delta1, Sqrt(RMul(RMul(RNeg(delta0), delta0), delta0)))),
             RMul(Int2R(2), Sqrt(RNeg(delta0))))

CardanoDeltas(bn, delta0, delta1) ==
    CardanoBranch(bn, delta0, delta1,
                  RAdd(RMul(RMul(delta0, delta0), delta0), RMul(delta1, delta1)))

CardanoNormalized(bn, cn, dn) ==
    CardanoDeltas(bn,
        RDiv(RSub(RMul(Int2R(3), cn), RMul(bn, bn)), Int2R(9)),
        RDiv(RSub(RSub(RMul(RMul(Int2R(9), bn), cn), RMul(Int2R(27), dn)),
                  RMul(RMul(RMul(Int2R(2), bn), bn), bn)),
             Int2R(54)))

\* the rest of real_roots: Cardano's algorithm for a /= 0
CardanoRoots(a, b, c, d) == CardanoNormalized(RDiv(b, a), RDiv(c, a), RDiv(d, a))

\* CubicBezier::real_roots: the roots pushed, in the order of the pushes
real_roots_impl(a, b, c, d) ==
    IF RLt(RAbs(a), EPSILON) THEN LowDegreeRoots(b, c, d)
    ELSE CardanoRoots(a, b, c, d)

\* QuadraticBezier::real_roots(a, b, c), the roots of a t^2 + b t + c: the
\* solver's quadratic and linear branch
QuadraticBezier_real_roots_impl(a, b, c) == LowDegreeRoots(a, b, c)

\* the scalars of the sequence s that satisfy Keep, in order
RECURSIVE Retain(_, _, _)
Retain(s, Keep(_), n) ==
    IF n = 0 THEN <<>>
    ELSE IF Keep(s[n]) THEN Append(Retain(s, Keep, n - 1), s[n])
         ELSE Retain(s, Keep, n - 1)

\* the closure of extrema.retain: root > 0.0 && root < 1.0
InUnitInterval(root) == RGt(root, Zero) /\ RLt(root, One)

\* the smallest and the largest scalar of the non-empty sequence s: the
\* first and last element after sort_unstable_by(partial_cmp)
SortedFirst(s) == CHOOSE v \in {s[i] : i \in 1..Len(s)} : \A i \in 1..Len(s) : RLe(v, s[i])

SortedLast(s) == CHOOSE v \in {s[i] : i \in 1..Len(s)} : \A i \in 1..Len(s) : RGe(v, s[i])

\* a variant in which the retained roots are not replaced by the curve's
\* coordinate
ExtremaNotEvaluated(cb, dim, kept) == kept

\* the roots kept by retain, each replaced by the curve's coordinate there
ExtremaValues(cb, dim, kept) ==
    [i \in 1..Len(kept) |-> PAxis(eval_casteljau(cb, kept[i]), dim)]

\* a variant that keeps every root
ExtremaUnretained(cb, dim, roots) ==
    Append(Append(ExtremaValues(cb, dim, roots), PAxis(cb.start, dim)),
           PAxis(cb.end, dim))

\* the candidates of one dimension: the retained roots evaluated, then the
\* start and the end coordinate pushed
Extrema(cb, dim, roots) ==
    Append(Append(ExtremaValues(cb, dim, Retain(roots, InUnitInterval, Len(roots))),
                  PAxis(cb.start, dim)),
           PAxis(cb.end, dim))

BoundsOfExtrema(extrema) == <<SortedFirst(extrema), SortedLast(extrema)>>

\* the coefficients a, b, c of the derivative, as points
DerivativeCoefficients(derivative) ==
    [a |-> PAdd(PAdd(derivative.start, PMul(derivative.ctrl, Int2R(-2))), derivative.end),
     b |-> PAdd(PMul(derivative.start, Int2R(-2)), PMul(derivative.ctrl, Int2R(2))),
     c |-> derivative.start]

\* the candidates of dimension dim from the coefficient points
ExtremaOfDim(cb, dim, k) ==
    Extrema(cb, dim, QuadraticBezier_real_roots(PAxis(k.a, dim), PAxis(k.b, dim), PAxis(k.c, dim)))

\* the body of the loop over the dimensions of bounding_box
BoundsOfDim(cb, dim) ==
    BoundsOfExtrema(ExtremaOfDim(cb, dim, DerivativeCoefficients(CubicBezier_derivative(cb))))

\* a variant of bounding_box that takes the bounds from the two end points
BoundingBoxOfEnds(cb) ==
    [i \in 1..Len(cb.start) |-> BoundsOfExtrema(<<cb.start[i], cb.end[i]>>)]

\* CubicBezier::bounding_box: a (min, max) pair per dimension
bounding_box_impl(cb) == [i \in 1..Len(cb.start) |-> BoundsOfDim(cb, i - 1)]

-----------------------------------------------------------------------------
(* Degeneracy predicates of CubicBezier *)

\* CubicBezier::baseline: the LineSegment from start to end
baseline(cb) == [start |-> cb.start, end |-> cb.end]

\* the 2D cross product of the vectors u and v
Cross(u, v) == RSub(RMul(u[1], v[2]), RMul(u[2], v[1]))

\* LineSegment::distance_to_point: the perpendicular distance of the point p
\* to the line through the segment's start and end
distance_to_point(line, p) ==
    RDiv(RAbs(Cross(PSub(line.end, line.start), PSub(p, line.start))),
         Sqrt(squared_length(PSub(line.end, line.start))))

PointsNear(lineeq, ctrl1, ctrl2, tolerance) ==
    /\ RLe(distance_to_point(lineeq, ctrl1), tolerance)
    /\ RLe(distance_to_point(lineeq, ctrl2), tolerance)

\* a variant of are_points_colinear that tests ctrl1 only
ColinearFirstOnly(cb, tolerance) ==
    RLe(distance_to_point(baseline(cb), cb.ctrl1), tolerance)

\* CubicBezier::are_points_colinear
are_points_colinear(cb, tolerance) ==
    PointsNear(baseline(cb), cb.ctrl1, cb.ctrl2, tolerance)

\* CubicBezier::is_linear
is_linear_impl(cb, tolerance) ==
    IF RLt(squared_length(PSub(cb.start, cb.end)), EPSILON) THEN FALSE
    ELSE are_points_colinear(cb, tolerance)

IsAPointWithin(cb, tolerance_squared) ==
    /\ RLe(squared_length(PSub(cb.start, cb.end)), tolerance_squared)
    /\ RLe(squared_length(PSub(cb.start, cb.ctrl1)), tolerance_squared)
    /\ RLe(squared_length(PSub(cb.end, cb.ctrl2)), tolerance_squared)

\* a variant of is_a_point that compares with < instead of <=
IsAPointStrict(cb, tolerance) ==
    /\ RLt(squared_length(PSub(cb.start, cb.end)), RMul(tolerance, tolerance))
    /\ RLt(squared_length(PSub(cb.start, cb.ctrl1)), RMul(tolerance, tolerance))
    /\ RLt(squared_length(PSub(cb.end, cb.ctrl2)), RMul(tolerance, tolerance))

\* CubicBezier::is_a_point
is_a_point_impl(cb, tolerance) == IsAPointWithin(cb, RMul(tolerance, tolerance))

-----------------------------------------------------------------------------
(* BSpline<P, F>: a record of degree, control_points and knots *)

\* the two forms of an Option
None == [none |-> TRUE]

Some(v) == [some |-> v]

\* the largest value of the type usize, here of UsizeBits bits
UsizeBits == 4

UsizeMax == (2 ^ UsizeBits) - 1

BSpline(degree, control_points, knots) ==
    [degree |-> degree, control_points |-> control_points, knots |-> knots]

\* the else-if and the else branch of BSpline::new, with expected for the
\* value of control_points.len() + degree + 1
CheckKnots(degree, control_points, knots, expected) ==
    IF Len(knots) /= expected THEN None
    ELSE Some(BSpline(degree, control_points, knots))

\* a variant of the constructor that accepts as many control points as the
\* degree
BSplineNewOffByOne(degree, control_points, knots) ==
    IF Len(control_points) < degree THEN {None}
    ELSE {CheckKnots(degree, control_points, knots, Len(control_points) + degree + 1)}

\* BSpline::new: the set of its outcomes.  The sum in usize panics on
\* overflow in a debug build and wraps in a release build.
BSpline_new(degree, control_points, knots) ==
    IF Len(control_points) <= degree THEN {None}
    ELSE IF Len(control_points) + degree + 1 > UsizeMax
         THEN {Panic,
               CheckKnots(degree, control_points, knots,
                          (Len(control_points) + degree + 1) % (UsizeMax + 1))}
         ELSE {CheckKnots(degree, control_points, knots,
                          Len(control_points) + degree + 1)}

\* a variant of the loop body that also moves right past no element equal
\* to the value: the search for the first element not less than the value
UpperBoundsStepNotLess(data, value, first, count) ==
    IF first + (count \div 2) + 1 > Len(data) THEN Panic
    ELSE IF RGt(value, data[first + (count \div 2) + 1])
         THEN [first |-> first + (count \div 2) + 1, count |-> count - ((count \div 2) + 1)]
         ELSE [first |-> first, count |-> count \div 2]

\* one iteration of the loop of BSpline::upper_bounds: step = count / 2,
\* it = first + step, the test of data[it] (a panic when it is no index of
\* data; the sequence data starts at 1) and the new first and count
UpperBoundsStep(data, value, first, count) ==
    IF first + (count \div 2) + 1 > Len(data) THEN Panic
    ELSE IF ~RLt(value, data[first + (count \div 2) + 1])
         THEN [first |-> first + (count \div 2) + 1, count |-> count - ((count \div 2) + 1)]
         ELSE [first |-> first, count |-> count \div 2]

\* the result of BSpline::upper_bounds after the loop
UpperBoundsResult(data, first) ==
    IF first = Len(data) THEN None ELSE Some(first)

-----------------------------------------------------------------------------
(* The dispatch of Call *)

\* the rounded operations and the elementary functions, by name
Call(op, a) ==
    CASE op = "FAdd" -> FAddBody(a[1], a[2])
      [] op = "FMul" -> FMulBody(a[1], a[2])
      [] op = "FDiv" -> FDivBody(a[1], a[2])
      [] op = "ToDec" -> ToDecBody(a[1])
      [] op = "Sqrt" -> SqrtBody(a[1])
      [] op = "Cbrt" -> CbrtBody(a[1])
      [] op = "Cos" -> CosBody(a[1])
      [] op = "Acos" -> AcosBody(a[1])
      [] op = "Bezier_eval" -> Bezier_eval_impl(a[1], a[2])
      [] op = "Bezier_split" -> Bezier_split_impl(a[1], a[2])
      [] op = "Bezier_derivative" -> Bezier_derivative_impl(a[1])
      [] op = "CasteljauAssign" -> CasteljauAssign_impl(a[1], a[2], a[3])
      [] op = "CubicBezier_eval" -> CubicBezier_eval_impl(a[1], a[2])
      [] op = "eval_casteljau" -> eval_casteljau_impl(a[1], a[2])
      [] op = "axis" -> axis_impl(a[1], a[2], a[3])
      [] op = "arclen" -> arclen_impl(a[1], a[2])
      [] op = "CubicBezier_split" -> CubicBezier_split_impl(a[1], a[2])
      [] op = "CubicBezier_derivative" -> CubicBezier_derivative_impl(a[1])
      [] op = "dd" -> dd_impl(a[1], a[2], a[3])
      [] op = "real_roots" -> real_roots_impl(a[1], a[2], a[3], a[4])
      [] op = "QuadraticBezier_real_roots" -> QuadraticBezier_real_roots_impl(a[1], a[2], a[3])
      [] op = "bounding_box" -> bounding_box_impl(a[1])
      [] op = "is_linear" -> is_linear_impl(a[1], a[2])
      [] op = "is_a_point" -> is_a_point_impl(a[1], a[2])

-----------------------------------------------------------------------------
(* Inputs *)

\* the dimension of the points: the tests use PointN<f64, 2>
Dim == 2

\* the second coordinate of a control point is 0 or 1
YCoords == {Zero, One}

Points == {<<Int2R(x), y>> : x \in 0..MaxCoord, y \in YCoords}

PointsN == {<<Int2R(x), y>> : x \in 0..MaxCoordN, y \in YCoords}

TVals == {Rat(k, TDen) : k \in 0..TDen}

\* split parameters, with one extrapolating value on each side of [0,1]
TSplit == {Rat(k, TDen) : k \in -1..(TDen + 1)}

\* tolerances of the degeneracy predicates: the multiples of 1/2 up to MaxTol
Tolerances == {Rat(k, 2) : k \in 0..(2 * MaxTol)}

BezierCurves == {Bezier_new(cp) : cp \in UNION {[1..n -> PointsN] : n \in 1..MaxN}}

\* cubic curves that start on the first axis
CubicCurves ==
    {CubicBezier_new(<<Int2R(x), Zero>>, p[1], p[2], p[3]) :
        x \in 0..MaxCoord, p \in [1..3 -> Points]}

\* a positive scalar below EPSILON
Tiny == Rat(1, MaxNum - 1)

\* the solver inputs named by the library's description, one with
\* coefficients that are approximately but not exactly zero, and a cube of
\* small integer coefficients
SolverExamples ==
    {<<Zero, Zero, Zero, Int2R(5)>>, <<Zero, Zero, Int2R(2), Int2R(-4)>>,
     <<Zero, One, Zero, Int2R(-4)>>, <<One, Int2R(-6), Int2R(11), Int2R(-6)>>,
     <<Tiny, RNeg(Tiny), Int2R(2), Int2R(-4)>>, <<Tiny, One, Zero, Int2R(-4)>>,
     <<Zero, Zero, Tiny, RNeg(Tiny)>>,
     <<Zero, Int2R(1000000), Rat(1, 10000), Zero>>}

SolverInputs ==
    SolverExamples
    \cup {<<Int2R(a), Int2R(b), Int2R(c), Int2R(d)>> :
            a \in 0..MaxLead, b \in -MaxCoef..MaxCoef,
            c \in -MaxCoef..MaxCoef, d \in -MaxCoef..MaxCoef}

\* the arguments of BSpline::new: control points and knots are slices of up
\* to MaxCtrl points and MaxKnots scalars, knots in any order
ControlSlices == UNION {[1..n -> {<<Zero, Zero>>, <<One, Zero>>}] : n \in 0..MaxCtrl}

KnotSlices == UNION {[1..n -> {Zero, One}] : n \in 0..MaxKnots}

Degrees == (0..MaxDegree) \cup {UsizeMax}

Threads == 1..MaxThreads

\* the curves evaluated concurrently have up to MaxShared control points
SharedCurves ==
    {Bezier_new(cp) : cp \in UNION {[1..n -> PointsN] : n \in 1..MaxShared}}

Idle == [op |-> "idle"]

\* ret when no call has returned
NoValue == <<>>

\* the receiver is a generic curve / a cubic curve
IsBezier(curve) == "control_points" \in DOMAIN curve

IsCubicBezier(curve) == "ctrl1" \in DOMAIN curve

-----------------------------------------------------------------------------
(* One action per method call: the call and its arguments are recorded in  *)
(* `call`, the value returned in `ret`; Return ends the call.  self is the *)
(* receiver (&self) of the methods.                                        *)

Return ==
    /\ call /= Idle
    /\ call' = Idle
    /\ ret' = NoValue
    /\ UNCHANGED self

(* Generic Bezier curve *)

InitBezier ==
    /\ self \in BezierCurves
    /\ call = Idle
    /\ ret = NoValue

\* a variant of the call of eval whose loops overwrite the receiver's
\* control points instead of a copy
BezierEvalInPlace ==
    /\ IsBezier(self)
    /\ call = Idle
    /\ \E t \in TVals :
        /\ call' = [op |-> "Bezier::eval", t |-> t]
        /\ ret' = Bezier_eval(self, t)
        /\ self' = Bezier_new(BezierEvalLoop(self.control_points, t, 1))

BezierEval ==
    /\ IsBezier(self)
    /\ call = Idle
    /\ \E t \in TVals :
        /\ call' = [op |-> "Bezier::eval", t |-> t]
        /\ ret' = Bezier_eval(self, t)
    /\ UNCHANGED self

BezierSplit ==
    /\ IsBezier(self)
    /\ call = Idle
    /\ \E t \in TSplit :
        /\ call' = [op |-> "Bezier::split", t |-> t]
        /\ ret' = Bezier_split(self, t)
    /\ UNCHANGED self

BezierDerivative ==
    /\ IsBezier(self)
    /\ call = Idle
    /\ call' = [op |-> "Bezier::derivative"]
    /\ ret' = Bezier_derivative(self)
    /\ UNCHANGED self

\* a later use of a curve returned by split: one half is evaluated
BezierEvalHalf ==
    /\ call.op = "Bezier::split"
    /\ \E h \in 1..2, s \in TVals :
        /\ call' = [op |-> "half.eval", of |-> call, half |-> h, t |-> s]
        /\ ret' = Bezier_eval(ret[h], s)
    /\ UNCHANGED self

\* a later use of the curve returned by derivative
BezierEvalDerivative ==
    /\ call.op = "Bezier::derivative"
    /\ ret /= Panic
    /\ \E t \in TVals :
        /\ call' = [op |-> "derivative.eval", t |-> t]
        /\ ret' = Bezier_eval(ret, t)
    /\ UNCHANGED self

NextBezier ==
    \/ BezierEval
    \/ BezierSplit
    \/ BezierDerivative
    \/ BezierEvalHalf
    \/ BezierEvalDerivative
    \/ Return

SpecBezier == InitBezier /\ [][NextBezier]_vars

(* Cubic Bezier curve *)

InitCubic ==
    /\ self \in CubicCurves
    /\ call = Idle
    /\ ret = NoValue

CubicEval ==
    /\ IsCubicBezier(self)
    /\ call = Idle
    /\ \E t \in TVals :
        /\ call' = [op |-> "CubicBezier::eval", t |-> t]
        /\ ret' = CubicBezier_eval(self, t)
    /\ UNCHANGED self

CubicEvalCasteljau ==
    /\ IsCubicBezier(self)
    /\ call = Idle
    /\ \E t \in TVals :
        /\ call' = [op |-> "CubicBezier::eval_casteljau", t |-> t]
        /\ ret' = eval_casteljau(self, t)
    /\ UNCHANGED self

CubicAxis ==
    /\ IsCubicBezier(self)
    /\ call = Idle
    /\ \E t \in TVals, index \in 0..(Dim - 1) :
        /\ call' = [op |-> "CubicBezier::axis", t |-> t, axis |-> index]
        /\ ret' = axis(self, t, index)
    /\ UNCHANGED self

CubicSplit ==
    /\ IsCubicBezier(self)
    /\ call = Idle
    /\ \E t \in TSplit :
        /\ call' = [op |-> "CubicBezier::split", t |-> t]
        /\ ret' = CubicBezier_split(self, t)
    /\ UNCHANGED self

CubicDerivative ==
    /\ IsCubicBezier(self)
    /\ call = Idle
    /\ call' = [op |-> "CubicBezier::derivative"]
    /\ ret' = CubicBezier_derivative(self)
    /\ UNCHANGED self

CubicDd ==
    /\ IsCubicBezier(self)
    /\ call = Idle
    /\ \E t \in TVals, index \in 0..(Dim - 1) :
        /\ call' = [op |-> "CubicBezier::dd", t |-> t, axis |-> index]
        /\ ret' = dd(self, t, index)
    /\ UNCHANGED self

CubicArclen ==
    /\ IsCubicBezier(self)
    /\ call = Idle
    /\ \E nsteps \in 1..MaxSteps :
        /\ call' = [op |-> "CubicBezier::arclen", nsteps |-> nsteps]
        /\ ret' = arclen(self, nsteps)
    /\ UNCHANGED self

CubicBoundingBox ==
    /\ IsCubicBezier(self)
    /\ call = Idle
    /\ call' = [op |-> "CubicBezier::bounding_box"]
    /\ ret' = bounding_box(self)
    /\ UNCHANGED self

CubicIsLinear ==
    /\ IsCubicBezier(self)
    /\ call = Idle
    /\ \E tolerance \in Tolerances :
        /\ call' = [op |-> "CubicBezier::is_linear", tolerance |-> tolerance]
        /\ ret' = is_linear(self, tolerance)
    /\ UNCHANGED self

CubicIsAPoint ==
    /\ IsCubicBezier(self)
    /\ call = Idle
    /\ \E tolerance \in Tolerances :
        /\ call' = [op |-> "CubicBezier::is_a_point", tolerance |-> tolerance]
        /\ ret' = is_a_point(self, tolerance)
    /\ UNCHANGED self

\* a later use of a curve returned by split: the derivative of one half
CubicDerivativeOfHalf ==
    /\ call.op = "CubicBezier::split"
    /\ \E h \in 1..2 :
        /\ call' = [op |-> "half.derivative", of |-> call, half |-> h]
        /\ ret' = CubicBezier_derivative(ret[h])
    /\ UNCHANGED self

NextCubic ==
    \/ CubicEval
    \/ CubicEvalCasteljau
    \/ CubicAxis
    \/ CubicSplit
    \/ CubicDerivative
    \/ CubicDd
    \/ CubicArclen
    \/ CubicBoundingBox
    \/ CubicIsLinear
    \/ CubicIsAPoint
    \/ CubicDerivativeOfHalf
    \/ Return

SpecCubic == InitCubic /\ [][NextCubic]_vars

(* Both curve types: the receiver is a generic or a cubic curve *)

InitCurves == InitBezier \/ InitCubic

NextCurves == NextBezier \/ NextCubic

SpecCurves == InitCurves /\ [][NextCurves]_vars

(* The root solver: real_roots reads no field of the curve it is called on *)

InitRoots ==
    /\ self = CubicBezier_new(<<Zero, Zero>>, <<Zero, Zero>>, <<Zero, Zero>>, <<Zero, Zero>>)
    /\ call = Idle
    /\ ret = NoValue

RealRoots ==
    /\ call = Idle
    /\ \E k \in SolverInputs :
        /\ call' = [op |-> "CubicBezier::real_roots",
                    a |-> k[1], b |-> k[2], c |-> k[3], d |-> k[4]]
        /\ ret' = real_roots(k[1], k[2], k[3], k[4])
    /\ UNCHANGED self

NextRoots == RealRoots \/ Return

SpecRoots == InitRoots /\ [][NextRoots]_vars

(* The B-spline constructor: an associated function without receiver *)

InitBSpline ==
    /\ self = NoValue
    /\ call = Idle
    /\ ret = NoValue

BSplineNew ==
    /\ call = Idle
    /\ \E degree \in Degrees, control_points \in ControlSlices, knots \in KnotSlices :
        /\ call' = [op |-> "BSpline::new", degree |-> degree,
                    control_points |-> control_points, knots |-> knots]
        /\ ret' \in BSpline_new(degree, control_points, knots)
    /\ UNCHANGED self

NextBSpline == BSplineNew \/ Return

SpecBSpline == InitBSpline /\ [][NextBSpline]_vars

(* BSpline::upper_bounds, one step for each iteration of its loop: the     *)
(* frame in call holds the arguments data and value and the locals first   *)
(* and count; ret is NoValue until the function returns or panics.         *)

\* the slices searched, sorted or not
DataSlices == UNION {[1..n -> {Int2R(k) : k \in 0..MaxKnotValue}] : n \in 0..MaxData}

\* the values searched for: the halves from -1/2 to MaxKnotValue + 1/2
SearchValues == {Rat(k, 2) : k \in -1..(2 * MaxKnotValue + 1)}

InitUpperBounds ==
    /\ self = BSpline(1, <<<<Zero, Zero>>, <<One, Zero>>>>, <<Zero, Zero, One, One>>)
    /\ call = Idle
    /\ ret = NoValue

UpperBoundsBegin ==
    /\ call = Idle
    /\ \E data \in DataSlices, value \in SearchValues :
        call' = [op |-> "BSpline::upper_bounds", data |-> data, value |-> value,
                 first |-> 0, count |-> Len(data)]
    /\ UNCHANGED <<self, ret>>

UpperBoundsLoop ==
    /\ call.op = "BSpline::upper_bounds"
    /\ ret = NoValue
    /\ call.count > 0
    /\ LET next == UpperBoundsStep(call.data, call.value, call.first, call.count)
       IN  IF next = Panic THEN ret' = Panic /\ call' = call
           ELSE ret' = ret /\ call' = [call EXCEPT !.first = next.first, !.count = next.count]
    /\ UNCHANGED self

UpperBoundsEnd ==
    /\ call.op = "BSpline::upper_bounds"
    /\ ret = NoValue
    /\ ~(call.count > 0)
    /\ ret' = UpperBoundsResult(call.data, call.first)
    /\ UNCHANGED <<self, call>>

UpperBoundsReturn ==
    /\ call.op = "BSpline::upper_bounds"
    /\ ret /= NoValue
    /\ Return

NextUpperBounds == UpperBoundsBegin \/ UpperBoundsLoop \/ UpperBoundsEnd \/ UpperBoundsReturn

\* a call that has begun runs on: the thread executing it is scheduled
SpecUpperBounds ==
    /\ InitUpperBounds
    /\ [][NextUpperBounds]_vars
    /\ WF_vars(UpperBoundsLoop)
    /\ WF_vars(UpperBoundsEnd)

(* Concurrent Bezier::eval calls on one shared curve.  call[th] is the     *)
(* frame of thread th: the argument t, the scratch array p and the loop    *)
(* indices i and j; one step is one assignment to p[j] with the loop       *)
(* control up to the next assignment.                                      *)

\* the loop indices of the first assignment for n control points, or
\* i = n + 1 when the loops are over
FirstIndex(n) == IF n - 1 > 0 THEN <<1, 0>> ELSE <<n + 1, 0>>

\* the loop indices after the assignment at i, j
NextIndex(i, j, n) ==
    IF j + 1 < n - i THEN <<i, j + 1>>
    ELSE IF n - (i + 1) > 0 THEN <<i + 1, 0>>
    ELSE <<n + 1, 0>>

InitShared ==
    /\ self \in SharedCurves
    /\ call = [th \in Threads |-> Idle]
    /\ ret = [th \in Threads |-> NoValue]

\* let mut p: [P; N] = self.control_points
EvalBegin(th) ==
    /\ call[th] = Idle
    /\ \E t \in TVals :
        call' = [call EXCEPT ![th] =
                    [op |-> "Bezier::eval", t |-> t, p |-> self.control_points,
                     i |-> FirstIndex(Len(self.control_points))[1],
                     j |-> FirstIndex(Len(self.control_points))[2]]]
    /\ UNCHANGED <<self, ret>>

\* a variant of the step in which p is the shared array of control points
\* itself, not a copy of it
EvalAssignShared(th) ==
    /\ call[th].op = "Bezier::eval"
    /\ call[th].i <= Len(call[th].p)
    /\ self' = Bezier_new(CasteljauAssign(self.control_points, call[th].t, call[th].j))
    /\ call' = [call EXCEPT ![th] =
                    [op |-> "Bezier::eval", t |-> call[th].t,
                     p |-> CasteljauAssign(self.control_points, call[th].t, call[th].j),
                     i |-> NextIndex(call[th].i, call[th].j, Len(call[th].p))[1],
                     j |-> NextIndex(call[th].i, call[th].j, Len(call[th].p))[2]]]
    /\ UNCHANGED ret

\* p[j] = p[j] * (1.0 - t) + p[j+1] * t
EvalAssign(th) ==
    /\ call[th].op = "Bezier::eval"
    /\ call[th].i <= Len(call[th].p)
    /\ call' = [call EXCEPT ![th] =
                    [op |-> "Bezier::eval", t |-> call[th].t,
                     p |-> CasteljauAssign(call[th].p, call[th].t, call[th].j),
                     i |-> NextIndex(call[th].i, call[th].j, Len(call[th].p))[1],
                     j |-> NextIndex(call[th].i, call[th].j, Len(call[th].p))[2]]]
    /\ UNCHANGED <<self, ret>>

\* the loops are over: p[0] is returned
EvalEnd(th) ==
    /\ call[th].op = "Bezier::eval"
    /\ call[th].i > Len(call[th].p)
    /\ call' = [call EXCEPT ![th] = [op |-> "returned", t |-> call[th].t]]
    /\ ret' = [ret EXCEPT ![th] = call[th].p[1]]
    /\ UNCHANGED self

EvalReturn(th) ==
    /\ call[th].op = "returned"
    /\ call' = [call EXCEPT ![th] = Idle]
    /\ ret' = [ret EXCEPT ![th] = NoValue]
    /\ UNCHANGED self

NextShared ==
    \E th \in Threads :
        \/ EvalBegin(th)
        \/ EvalAssign(th)
        \/ EvalEnd(th)
        \/ EvalReturn(th)

SpecShared == InitShared /\ [][NextShared]_vars

-----------------------------------------------------------------------------
(* Properties of the generic Bezier curve, checked under SpecBezier *)

\* C1: for every generic curve with N >= 1 control points, eval(0) returns
\* control_points[0] and eval(1) returns control_points[N-1]
C1_EvalEndpoints ==
    (call.op = "Bezier::eval") =>
        /\ (call.t = Zero => ret = self.control_points[1])
        /\ (call.t = One => ret = self.control_points[Len(self.control_points)])

\* eval(1) has returned the last of MaxN control points, which is not the first
C1_Witness ==
    /\ call.op = "Bezier::eval"
    /\ call.t = One
    /\ Len(self.control_points) = MaxN
    /\ self.control_points[1] /= self.control_points[MaxN]
    /\ ret = self.control_points[MaxN]

\* C2: with (left, right) = split(t), left.eval(s) equals self.eval(s*t) and
\* right.eval(s) equals self.eval(t + s*(1-t)) for every s in [0,1], and both
\* halves have as many control points as the parent
C2_SplitEquivalence ==
    (call.op = "Bezier::split") =>
        /\ Len(ret[1].control_points) = Len(self.control_points)
        /\ Len(ret[2].control_points) = Len(self.control_points)
        /\ \A s \in TVals :
            /\ Bezier_eval(ret[1], s) = Bezier_eval(self, RMul(s, call.t))
            /\ Bezier_eval(ret[2], s)
                 = Bezier_eval(self, RAdd(call.t, RMul(s, RSub(One, call.t))))

\* a curve of MaxN control points that is not a single point has been split
\* inside (0,1) into two different halves
C2_Witness ==
    /\ call.op = "Bezier::split"
    /\ RGt(call.t, Zero) /\ RLt(call.t, One)
    /\ Len(self.control_points) = MaxN
    /\ self.control_points[1] /= self.control_points[2]
    /\ ret[1] /= ret[2]
    /\ ret[1] /= self

\* C7: derivative() of a curve of degree n (n + 1 control points w0..wn) has
\* the control points n * (w[i+1] - w[i]); for four control points these are
\* the three points of CubicBezier::derivative() of the same four points
C7_DerivativeByDegree ==
    (call.op = "Bezier::derivative" /\ Len(self.control_points) >= 2) =>
        /\ ret.control_points
             = [i \in 1..(Len(self.control_points) - 1) |->
                   PMul(PSub(self.control_points[i + 1], self.control_points[i]),
                        Int2R(Len(self.control_points) - 1))]
        /\ (Len(self.control_points) = 4) =>
               ret.control_points
                 = <<CubicBezier_derivative(CubicBezier_new(self.control_points[1],
                        self.control_points[2], self.control_points[3],
                        self.control_points[4])).start,
                     CubicBezier_derivative(CubicBezier_new(self.control_points[1],
                        self.control_points[2], self.control_points[3],
                        self.control_points[4])).ctrl,
                     CubicBezier_derivative(CubicBezier_new(self.control_points[1],
                        self.control_points[2], self.control_points[3],
                        self.control_points[4])).end>>

\* C18: for every generic curve with N >= 1 control points derivative()
\* completes without failing and returns a curve with exactly N-1 control
\* points, the point i being (control_points[i+1] - control_points[i]) * N
C18_DerivativeCompletes ==
    (call.op = "Bezier::derivative") =>
        /\ ret /= Panic
        /\ Len(ret.control_points) = Len(self.control_points) - 1
        /\ \A i \in 1..(Len(self.control_points) - 1) :
              ret.control_points[i]
                = PMul(PSub(self.control_points[i + 1], self.control_points[i]),
                       Int2R(Len(self.control_points)))

\* the cubic curve of the four control points of the generic curve b
AsCubic(b) ==
    CubicBezier_new(b.control_points[1], b.control_points[2],
                    b.control_points[3], b.control_points[4])

\* the control points of a cubic curve, in order
ControlPoints(cb) == <<cb.start, cb.ctrl1, cb.ctrl2, cb.end>>

\* parameters at which the scalar operations round
RoundedT == {Rat(1, 1024), Rat(1, 3000), Rat(333333333, 1000000000)}

\* the largest difference per axis that rounding may leave
RoundingSlack == Rat(1, 1000000)

\* the points p and q differ by at most RoundingSlack on every axis
PNear(p, q) == \A d \in 1..Dim : RLe(RAbs(RSub(p[d], q[d])), RoundingSlack)

\* C23: the cubic operations are the generic ones specialised to four
\* points: Bezier<_,4>::eval(t) equals CubicBezier::eval_casteljau(t) (up to
\* RoundingSlack at the parameters where the scalar operations round), and
\* the halves of Bezier<_,4>::split(t) have, in order, the control points
\* (start, ctrl1, ctrl2, end) of the halves of CubicBezier::split(t)
C23_CubicSpecialisesGeneric ==
    /\ (call.op = "Bezier::eval" /\ Len(self.control_points) = 4) =>
          /\ ret = eval_casteljau(AsCubic(self), call.t)
          /\ \A t \in RoundedT :
                PNear(Bezier_eval(self, t), eval_casteljau(AsCubic(self), t))
    /\ (call.op = "Bezier::split" /\ Len(self.control_points) = 4) =>
          /\ ret[1].control_points = ControlPoints(CubicBezier_split(AsCubic(self), call.t)[1])
          /\ ret[2].control_points = ControlPoints(CubicBezier_split(AsCubic(self), call.t)[2])

\* a curve of four control points, three of them different, has been split
\* inside (0,1) into the halves of the cubic split
C23_Witness ==
    /\ call.op = "Bezier::split"
    /\ Len(self.control_points) = 4
    /\ Cardinality({self.control_points[i] : i \in 1..4}) >= 3
    /\ RGt(call.t, Zero) /\ RLt(call.t, One)
    /\ ret[1] /= ret[2]
    /\ ret[1].control_points = ControlPoints(CubicBezier_split(AsCubic(self), call.t)[1])

\* eval has returned an inner point of a curve of four control points, the
\* point eval_casteljau returns
C23_WitnessEval ==
    /\ call.op = "Bezier::eval"
    /\ Len(self.control_points) = 4
    /\ RGt(call.t, Zero) /\ RLt(call.t, One)
    /\ ret \notin {self.control_points[1], self.control_points[4]}
    /\ ret = eval_casteljau(AsCubic(self), call.t)

-----------------------------------------------------------------------------
(* Properties of the cubic Bezier curve, checked under SpecCubic *)

\* C3: for t in (0,1) and every s in [0,1], with (left, right) = split(t),
\* eval(s*t) equals left.eval(s) and eval(t + s*(1-t)) equals right.eval(s)
C3_CubicSplitEquivalence ==
    (call.op = "CubicBezier::split" /\ RGt(call.t, Zero) /\ RLt(call.t, One)) =>
        \A s \in TVals :
            /\ CubicBezier_eval(self, RMul(s, call.t)) = CubicBezier_eval(ret[1], s)
            /\ CubicBezier_eval(self, RAdd(call.t, RMul(s, RSub(One, call.t))))
                 = CubicBezier_eval(ret[2], s)

\* a curve with four different control points has been split inside (0,1)
C3_Witness ==
    /\ call.op = "CubicBezier::split"
    /\ RGt(call.t, Zero) /\ RLt(call.t, One)
    /\ Cardinality({self.start, self.ctrl1, self.ctrl2, self.end}) = 4
    /\ ret[1] /= ret[2]
    /\ ret[1].end = ret[2].start

\* C4: for every t in [0,1] the Bernstein form eval(t) and the unrolled
\* De Casteljau form eval_casteljau(t) return the same point
C4_EvalEquivalence ==
    /\ (call.op = "CubicBezier::eval") => ret = eval_casteljau(self, call.t)
    /\ (call.op = "CubicBezier::eval_casteljau") => ret = CubicBezier_eval(self, call.t)

\* eval has returned an inner point of a curve with four different control
\* points
C4_Witness ==
    /\ call.op = "CubicBezier::eval"
    /\ RGt(call.t, Zero) /\ RLt(call.t, One)
    /\ Cardinality({self.start, self.ctrl1, self.ctrl2, self.end}) = 4
    /\ ret \notin {self.start, self.end}
    /\ ret = eval_casteljau(self, call.t)

\* the parameters at which containment in the bounding box is sampled
FineT == {Rat(k, 4 * TDen) : k \in 0..(4 * TDen)}

\* the slack of the containment test
Slack == Rat(1, 100)

\* C5: for every t in [0,1] and every axis d the point eval_casteljau(t) lies
\* inside the box returned by bounding_box(), up to the slack 1e-2
C5_BoundingBoxContains ==
    (call.op = "CubicBezier::bounding_box") =>
        \A t \in FineT, d \in 0..(Dim - 1) :
            /\ RLe(RSub(ret[d + 1][1], Slack), PAxis(eval_casteljau(self, t), d))
            /\ RLe(PAxis(eval_casteljau(self, t), d), RAdd(ret[d + 1][2], Slack))

\* a box has been returned whose upper bound on the second axis is the value
\* at an inner extremum: it lies above both end points by more than the slack
C5_Witness ==
    /\ call.op = "CubicBezier::bounding_box"
    /\ RGt(ret[2][2], RAdd(PAxis(self.start, 1), Slack))
    /\ RGt(ret[2][2], RAdd(PAxis(self.end, 1), Slack))
    /\ RLt(ret[1][1], ret[1][2])

\* the quadratic curve returned by derivative(), evaluated at t
DerivativeAt(cb, t) ==
    Bezier_eval(Bezier_new(<<CubicBezier_derivative(cb).start,
                             CubicBezier_derivative(cb).ctrl,
                             CubicBezier_derivative(cb).end>>), t)

\* C6: for every t and every axis, dd(t, axis) equals
\* derivative().eval(t).axis(axis), the value of the quadratic curve with the
\* points 3(ctrl1-start), 3(ctrl2-ctrl1), 3(end-ctrl2) at t
C6_DdIsDerivative ==
    (call.op = "CubicBezier::dd") =>
        ret = PAxis(DerivativeAt(self, call.t), call.axis)

\* the sum of the distances between the consecutive samples of eval_casteljau
\* at 0, 1/nsteps, ..., k/nsteps
RECURSIVE ChordSum(_, _, _)
ChordSum(cb, nsteps, k) ==
    IF k = 0 THEN Zero
    ELSE RAdd(ChordSum(cb, nsteps, k - 1),
              Sqrt(squared_length(PSub(eval_casteljau(cb, Rat(k - 1, nsteps)),
                                       eval_casteljau(cb, Rat(k, nsteps))))))

\* C8: arclen(nsteps) is the sum of the distances between consecutive
\* eval_casteljau samples at equally spaced parameters that span the curve
\* from t = 0 to t = 1 (compared up to 1e-6)
C8_ArclenSpansCurve ==
    (call.op = "CubicBezier::arclen") =>
        RLe(RAbs(RSub(ret, ChordSum(self, call.nsteps, call.nsteps))), Rat(1, 1000000))

\* the squared Euclidean distance of two points of the plane
SqDist(p, q) ==
    RAdd(RMul(RSub(p[1], q[1]), RSub(p[1], q[1])), RMul(RSub(p[2], q[2]), RSub(p[2], q[2])))

\* C13: is_a_point(tol) is true if and only if the squared distances
\* start-end, start-ctrl1 and end-ctrl2 are all <= tol^2; with tol = 0 it is
\* true exactly when all four control points are equal
C13_IsAPoint ==
    (call.op = "CubicBezier::is_a_point") =>
        /\ ret = (/\ RLe(SqDist(self.start, self.end), RMul(call.tolerance, call.tolerance))
                  /\ RLe(SqDist(self.start, self.ctrl1), RMul(call.tolerance, call.tolerance))
                  /\ RLe(SqDist(self.end, self.ctrl2), RMul(call.tolerance, call.tolerance)))
        /\ (call.tolerance = Zero) =>
               (ret = (Cardinality({self.start, self.ctrl1, self.ctrl2, self.end}) = 1))

\* is_a_point(0) has returned true
C13_Witness ==
    /\ call.op = "CubicBezier::is_a_point"
    /\ call.tolerance = Zero
    /\ ret = TRUE
    /\ self.start /= <<Zero, Zero>>

\* is_a_point(1) has returned true for a curve with more than one point
C13_WitnessTolerance ==
    /\ call.op = "CubicBezier::is_a_point"
    /\ call.tolerance = One
    /\ ret = TRUE
    /\ Cardinality({self.start, self.ctrl1, self.ctrl2, self.end}) > 1

\* twice the area of the triangle start, end, p, with sign
BaselineCross(cb, p) ==
    RSub(RMul(RSub(cb.end[1], cb.start[1]), RSub(p[2], cb.start[2])),
         RMul(RSub(cb.end[2], cb.start[2]), RSub(p[1], cb.start[1])))

\* the point p is within the distance tol of the line through start and end
\* (start /= end): area^2 <= tol^2 * |end - start|^2, without a square root
NearBaseline(cb, p, tol) ==
    RLe(RMul(BaselineCross(cb, p), BaselineCross(cb, p)),
        RMul(RMul(tol, tol), SqDist(cb.start, cb.end)))

\* C14: is_linear(tol) is false whenever the squared distance of start and
\* end is below the fixed epsilon, whatever the tolerance and the inner
\* points; otherwise it is true if and only if both ctrl1 and ctrl2 are
\* within the distance tol of the baseline start-end
C14_IsLinear ==
    (call.op = "CubicBezier::is_linear") =>
        IF RLt(SqDist(self.start, self.end), EPSILON) THEN ret = FALSE
        ELSE ret = (/\ NearBaseline(self, self.ctrl1, call.tolerance)
                    /\ NearBaseline(self, self.ctrl2, call.tolerance))

\* is_linear has returned true for a curve whose inner points are both off
\* the baseline, within the tolerance
C14_Witness ==
    /\ call.op = "CubicBezier::is_linear"
    /\ ret = TRUE
    /\ BaselineCross(self, self.ctrl1) /= Zero
    /\ BaselineCross(self, self.ctrl2) /= Zero

\* is_linear has returned false for a curve whose start and end coincide and
\* whose inner points lie on that point too
C14_WitnessClosed ==
    /\ call.op = "CubicBezier::is_linear"
    /\ ret = FALSE
    /\ Cardinality({self.start, self.ctrl1, self.ctrl2, self.end}) = 1

\* C15: for every t and every valid axis index, axis(t, axis) equals
\* eval(t).axis(axis)
C15_AxisIsEvalAxis ==
    (call.op = "CubicBezier::axis") =>
        ret = PAxis(CubicBezier_eval(self, call.t), call.axis)

\* axis has returned the second coordinate of an inner point of the curve,
\* which differs from its first coordinate
C15_Witness ==
    /\ call.op = "CubicBezier::axis"
    /\ call.axis = 1
    /\ RGt(call.t, Zero) /\ RLt(call.t, One)
    /\ ret = CubicBezier_eval(self, call.t)[2]
    /\ ret /= CubicBezier_eval(self, call.t)[1]

\* the set of the roots returned
RootSet(roots) == {roots[i] : i \in 1..Len(roots)}

\* the coefficients a, b, c of coordinate d of the derivative of cb, the
\* quadratic curve with the points d0 = 3(ctrl1-start), d1 = 3(ctrl2-ctrl1),
\* d2 = 3(end-ctrl2): a = d0 - 2 d1 + d2, b = 2 d1 - 2 d0, c = d0
DerivativePolynomial(cb, d) ==
    <<RMul(Int2R(3), RAdd(RSub(cb.end[d], RMul(Int2R(3), cb.ctrl2[d])),
                          RSub(RMul(Int2R(3), cb.ctrl1[d]), cb.start[d]))),
      RMul(Int2R(6), RAdd(RSub(cb.ctrl2[d], RMul(Int2R(2), cb.ctrl1[d])), cb.start[d])),
      RMul(Int2R(3), RSub(cb.ctrl1[d], cb.start[d]))>>

\* the roots of the polynomial k = <<a, b, c>> inside the open interval (0,1)
InnerRoots(k) ==
    {r \in RootSet(QuadraticBezier_real_roots(k[1], k[2], k[3])) :
        RGt(r, Zero) /\ RLt(r, One)}

\* the candidate set of coordinate d: the values at t = 0, at t = 1 and at
\* every inner root of the derivative
Candidates(cb, d) ==
    {cb.start[d], cb.end[d]}
    \cup {eval_casteljau(cb, r)[d] : r \in InnerRoots(DerivativePolynomial(cb, d))}

\* C19: for each axis, bounding_box() returns (min, max) of the candidate
\* set made of the value at t = 0, the value at t = 1 and the value of the
\* cubic at every root r of the derivative's polynomial with 0 < r < 1; so
\* min <= max and each bound is a value the curve attains
C19_BoundsOfCandidates ==
    (call.op = "CubicBezier::bounding_box") =>
        \A d \in 1..Dim :
            /\ ret[d][1] \in Candidates(self, d)
            /\ ret[d][2] \in Candidates(self, d)
            /\ \A v \in Candidates(self, d) : RLe(ret[d][1], v) /\ RLe(v, ret[d][2])
            /\ RLe(ret[d][1], ret[d][2])

\* a box has been returned whose upper bound on the first axis is the value
\* at an inner root: it is above both end points and below the largest
\* coordinate of the inner control points
C19_Witness ==
    /\ call.op = "CubicBezier::bounding_box"
    /\ RGt(ret[1][2], self.start[1])
    /\ RGt(ret[1][2], self.end[1])
    /\ RLt(ret[1][2], self.ctrl1[1]) \/ RLt(ret[1][2], self.ctrl2[1])
    /\ InnerRoots(DerivativePolynomial(self, 1)) /= {}

\* the roots extended into the candidate buffer of axis d (counted from 0)
DerivativeRoots(cb, d) ==
    QuadraticBezier_real_roots(PAxis(DerivativeCoefficients(CubicBezier_derivative(cb)).a, d),
                               PAxis(DerivativeCoefficients(CubicBezier_derivative(cb)).b, d),
                               PAxis(DerivativeCoefficients(CubicBezier_derivative(cb)).c, d))

\* the candidate buffer of axis d when extrema[0] and extrema.last() are read
ExtremaBuffer(cb, d) ==
    ExtremaOfDim(cb, d, DerivativeCoefficients(CubicBezier_derivative(cb)))

\* C25: in bounding_box(), for every axis the candidate buffer of capacity 4
\* never overflows and is never empty when read: it receives at most 2
\* derivative roots, keeps only those in (0,1), then the two end point
\* values are pushed, so it holds between 2 and 4 values
C25_BufferWithinCapacity ==
    (call.op = "CubicBezier::bounding_box") =>
        \A d \in 0..(Dim - 1) :
            /\ Len(DerivativeRoots(self, d)) <= 2
            /\ Len(ExtremaBuffer(self, d))
                 = 2 + Cardinality({i \in 1..Len(DerivativeRoots(self, d)) :
                                      /\ RGt(DerivativeRoots(self, d)[i], Zero)
                                      /\ RLt(DerivativeRoots(self, d)[i], One)})
            /\ Len(ExtremaBuffer(self, d)) \in 2..4
            /\ ret[d + 1] = <<SortedFirst(ExtremaBuffer(self, d)), SortedLast(ExtremaBuffer(self, d))>>

\* a box has been returned for a curve whose buffer of the first axis was
\* full and whose buffer of the second axis held the end points only
C25_Witness ==
    /\ call.op = "CubicBezier::bounding_box"
    /\ Len(ExtremaBuffer(self, 0)) = 4
    /\ Len(ExtremaBuffer(self, 1)) = 2

\* a box has been returned for a curve with a derivative root outside (0,1)
\* that was not kept
C25_WitnessDiscarded ==
    /\ call.op = "CubicBezier::bounding_box"
    /\ Len(DerivativeRoots(self, 0)) = 2
    /\ Len(ExtremaBuffer(self, 0)) = 3

-----------------------------------------------------------------------------
(* Properties of the root solver, checked under SpecRoots *)

\* x is approximately zero: its magnitude is below the fixed epsilon
ApproxZero(x) == RLt(RAbs(x), EPSILON)

\* the discriminant c^2 - 4bd
Discriminant(b, c, d) == RSub(RMul(c, c), RMul(RMul(Int2R(4), b), d))

\* the roots C9 describes for a quadratic equation with discriminant D
C9_QuadraticCase(b, c, D) ==
    IF RGt(D, Zero)
    THEN /\ Len(ret) = 2
         /\ RootSet(ret) = {RDiv(RSub(RNeg(c), Sqrt(D)), RMul(Int2R(2), b)),
                            RDiv(RAdd(RNeg(c), Sqrt(D)), RMul(Int2R(2), b))}
    ELSE IF ApproxZero(D) THEN ret = <<RDiv(RNeg(c), RMul(Int2R(2), b))>>
    ELSE ret = <<>>

\* C9: real_roots degrades by degree with the fixed epsilon: no root when a,
\* b and c are approximately zero; the one root -d/c when a and b are; for a
\* approximately zero alone the roots of b t^2 + c t + d by its discriminant
\* D: (-c-sqrt(D))/(2b) and (-c+sqrt(D))/(2b) for D > 0, -c/(2b) for D
\* approximately zero, none for D < 0.  (0,0,0,5) has no root, (0,0,2,-4) the
\* root 2, (0,1,0,-4) the roots -2 and 2.
C9_DegradesByDegree ==
    (call.op = "CubicBezier::real_roots") =>
        /\ (ApproxZero(call.a) /\ ApproxZero(call.b) /\ ApproxZero(call.c)) => ret = <<>>
        /\ (ApproxZero(call.a) /\ ApproxZero(call.b) /\ ~ApproxZero(call.c)) =>
               ret = <<RDiv(RNeg(call.d), call.c)>>
        /\ (ApproxZero(call.a) /\ ~ApproxZero(call.b)) =>
               C9_QuadraticCase(call.b, call.c, Discriminant(call.b, call.c, call.d))
        /\ (<<call.a, call.b, call.c, call.d>> = <<Zero, Zero, Zero, Int2R(5)>>) => ret = <<>>
        /\ (<<call.a, call.b, call.c, call.d>> = <<Zero, Zero, Int2R(2), Int2R(-4)>>) =>
               ret = <<Int2R(2)>>
        /\ (<<call.a, call.b, call.c, call.d>> = <<Zero, One, Zero, Int2R(-4)>>) =>
               (Len(ret) = 2 /\ RootSet(ret) = {Int2R(-2), Int2R(2)})

\* a quadratic equation whose leading coefficient a is small but not zero has
\* been solved and has two different roots
C9_Witness ==
    /\ call.op = "CubicBezier::real_roots"
    /\ call.a /= Zero /\ ApproxZero(call.a) /\ ~ApproxZero(call.b)
    /\ Len(ret) = 2
    /\ RLt(ret[1], ret[2])

\* the tolerance of the comparison of C10: the claim's 1e-10 is below the
\* resolution of the model's scalars, and a root that is not within 1e-7 of
\* r is not within 1e-10 of it
RootTolerance == Rat(1, 10000000)

\* C10: real_roots(1, -6, 11, -6), a cubic of the trigonometric branch with
\* the roots 1, 2 and 3, returns three roots, and each of 1, 2 and 3 is
\* within the tolerance of a returned root
C10_CubicExample ==
    (call.op = "CubicBezier::real_roots"
        /\ <<call.a, call.b, call.c, call.d>> = <<One, Int2R(-6), Int2R(11), Int2R(-6)>>) =>
        /\ Len(ret) = 3
        /\ \A r \in 1..3 : \E i \in 1..Len(ret) :
              RLe(RAbs(RSub(ret[i], Int2R(r))), RootTolerance)

\* a t^3 + b t^2 + c t + d has no real solution: it is a constant other than
\* zero, or a quadratic with a negative discriminant (a polynomial of odd
\* degree always has a real root, and the zero polynomial is solved by every t)
NoRealSolution(a, b, c, d) ==
    /\ a = Zero
    /\ IF b = Zero THEN c = Zero /\ d /= Zero
                   ELSE RLt(Discriminant(b, c, d), Zero)

\* C20: real_roots returns an empty result only when the polynomial
\* a t^3 + b t^2 + c t + d has no real solution, for every coefficient tuple,
\* those with a, b and c all approximately zero included
C20_EmptyMeansNoSolution ==
    (call.op = "CubicBezier::real_roots" /\ ret = <<>>) =>
        NoRealSolution(call.a, call.b, call.c, call.d)

CardanoSAndT(bn, cn, dn) ==
    LET delta0 == RDiv(RSub(RMul(Int2R(3), cn), RMul(bn, bn)), Int2R(9))
        delta1 == RDiv(RSub(RSub(RMul(RMul(Int2R(9), bn), cn), RMul(Int2R(27), dn)),
                            RMul(RMul(RMul(Int2R(2), bn), bn), bn)),
                       Int2R(54))
        delta_01 == RAdd(RMul(RMul(delta0, delta0), delta0), RMul(delta1, delta1))
        p == RAdd(delta1, Sqrt(delta_01))
        q == RSub(delta1, Sqrt(delta_01))
    IN  IF RLt(delta_01, Zero) THEN <<>>
        ELSE <<RMul(Signum(p), Cbrt(RAbs(p))), RMul(Signum(q), Cbrt(RAbs(q)))>>

\* the result the claim describes for the branch delta_01 >= 0: the root
\* -bn/3 + (s+t) always, the root -bn/3 - (s+t)/2 exactly when
\* |s-t| < epsilon and |s+t| >= epsilon, and the two differ
C21_CardanoPushes(bn, st) ==
    LET sum == RAdd(st[1], st[2])
        third == RMul(RNeg(bn), frac_1_3)
    IN  /\ Len(ret) \in {1, 2}
        /\ ret[1] = RAdd(third, sum)
        /\ Len(ret) = 2 <=> (ApproxZero(RSub(st[1], st[2])) /\ ~ApproxZero(sum))
        /\ Len(ret) = 2 => (ret[2] = RSub(third, RDiv(sum, Int2R(2))) /\ ret[2] /= ret[1])

C21_WitnessTriple ==
    /\ call.op = "CubicBezier::real_roots"
    /\ call.a = One /\ call.b = Zero /\ call.c = Zero /\ call.d = Zero
    /\ ret = <<Zero>>

-----------------------------------------------------------------------------
(* Properties of the B-spline constructor, checked under SpecBSpline *)

\* C11: BSpline::new returns None when control_points.len() <= degree, None
\* when knots.len() /= control_points.len() + degree + 1, and Some of the
\* spline with exactly the given degree, control points and knots otherwise;
\* it never panics, and a constructed spline has more control points than
\* its degree and control_points.len() + degree + 1 knots
C11_ConstructorValidates ==
    (call.op = "BSpline::new") =>
        /\ ret /= Panic
        /\ (Len(call.control_points) <= call.degree) => ret = None
        /\ (Len(call.knots) /= Len(call.control_points) + call.degree + 1) => ret = None
        /\ (/\ Len(call.control_points) > call.degree
            /\ Len(call.knots) = Len(call.control_points) + call.degree + 1)
               => ret = Some(BSpline(call.degree, call.control_points, call.knots))
        /\ ("some" \in DOMAIN ret) =>
               /\ Len(ret.some.control_points) > ret.some.degree
               /\ Len(ret.some.knots) = Len(ret.some.control_points) + ret.some.degree + 1

\* a spline of degree 2 has been constructed from MaxCtrl control points
C11_Witness ==
    /\ call.op = "BSpline::new"
    /\ call.degree = 2
    /\ Len(call.control_points) = MaxCtrl
    /\ ret = Some(BSpline(call.degree, call.control_points, call.knots))

\* the constructor has refused a degree for which the sum
\* control_points.len() + degree + 1 does not fit the type usize
C11_WitnessLargestDegree ==
    /\ call.op = "BSpline::new"
    /\ call.degree = UsizeMax
    /\ Len(call.control_points) = MaxCtrl
    /\ ret = None

\* C12: every spline returned by BSpline::new has its knots in non-decreasing
\* order: knots[i] <= knots[i+1] for all i
C12_KnotsSorted ==
    (call.op = "BSpline::new" /\ "some" \in DOMAIN ret) =>
        \A i \in 1..(Len(ret.some.knots) - 1) :
            RLe(ret.some.knots[i], ret.some.knots[i + 1])

-----------------------------------------------------------------------------
(* Properties of the knot search, checked under SpecUpperBounds *)

\* data is sorted in non-decreasing order
IsSorted(data) == \A i \in 1..(Len(data) - 1) : RLe(data[i], data[i + 1])

\* the indices (from 0) of the elements of data greater than value
Greater(data, value) == {i \in 0..(Len(data) - 1) : RGt(data[i + 1], value)}

\* the call in progress searches a sorted slice
SearchingSorted == call.op = "BSpline::upper_bounds" /\ IsSorted(call.data)

\* the result described: Some(i) for the smallest index i with
\* data[i] > value, None when there is none
UpperBoundsExpected(data, value) ==
    IF Greater(data, value) = {} THEN None
    ELSE Some(CHOOSE i \in Greater(data, value) : \A j \in Greater(data, value) : i <= j)

\* C22, safety: a search of a sorted slice never indexes outside data and
\* returns Some(i) for the smallest index i with data[i] > value, or None
\* when no element is greater than value
C22_UpperBoundsResult ==
    (SearchingSorted /\ ret /= NoValue) =>
        ret = UpperBoundsExpected(call.data, call.value)

\* C22: for every sorted slice data (the empty slice and slices with
\* repeated values included) and every value, upper_bounds(data, value)
\* terminates, never indexes outside data, and returns Some(i) where i is the
\* smallest index with data[i] > value, or None when no element of data is
\* greater than value
C22_UpperBounds ==
    /\ []C22_UpperBoundsResult
    /\ (SearchingSorted /\ ret = NoValue) ~> (SearchingSorted /\ ret /= NoValue)

\* a search of a slice with a repeated value, for that value, has returned
\* the index after the repetition
C22_Witness ==
    /\ SearchingSorted
    /\ Len(call.data) = MaxData
    /\ call.data[2] = call.value /\ call.data[3] = call.value
    /\ ret = Some(3)

\* a search of the empty slice has returned None
C22_WitnessEmpty ==
    /\ SearchingSorted
    /\ call.data = <<>>
    /\ ret = None

-----------------------------------------------------------------------------
(* Properties of both curve types, checked under SpecCurves *)

C24_HalvesJoin ==
    /\ (call.op = "CubicBezier::split") =>
          /\ ret[1].start = self.start
          /\ ret[2].end = self.end
          /\ ret[1].end = ret[2].start
          /\ ret[1].end = eval_casteljau(self, call.t)
    /\ (call.op = "Bezier::split") =>
          LET N == Len(self.control_points)
          IN  /\ ret[1].control_points[1] = self.control_points[1]
              /\ ret[2].control_points[N] = self.control_points[N]
              /\ ret[1].control_points[N] = ret[2].control_points[1]
              /\ ret[1].control_points[N] = Bezier_eval(self, call.t)

\* a cubic curve has been split inside (0,1) at a point that is neither of
\* its ends
C24_Witness ==
    /\ call.op = "CubicBezier::split"
    /\ RGt(call.t, Zero) /\ RLt(call.t, One)
    /\ ret[1].end \notin {self.start, self.end}
    /\ ret[2].start = eval_casteljau(self, call.t)

\* a generic curve of MaxN control points has been split outside [0,1] at a
\* point that is neither of its ends
C24_WitnessGeneric ==
    /\ call.op = "Bezier::split"
    /\ Len(self.control_points) = MaxN
    /\ RGt(call.t, One)
    /\ ret[2].control_points[1] \notin {self.control_points[1], self.control_points[MaxN]}
    /\ ret[2].control_points[1] = Bezier_eval(self, call.t)

-----------------------------------------------------------------------------
(* Properties of concurrent evaluation, checked under SpecShared *)

\* C17: for any interleaving of the steps of the eval calls of the threads on
\* one curve, each on its own scratch copy, no step writes the shared control
\* points, and every call returns the point that eval returns when it runs
\* alone
C17_ConcurrentEval ==
    [][/\ self' = self
       /\ \A th \in Threads :
            (call'[th].op = "returned") => ret'[th] = Bezier_eval(self, call'[th].t)]_vars

\* thread 1 has returned from eval while thread 2, called with another t, is
\* between two assignments to its scratch copy, which already differs from
\* the control points
C17_Witness ==
    /\ call[1].op = "returned"
    /\ call[2].op = "Bezier::eval"
    /\ call[2].t /= call[1].t
    /\ call[2].i <= Len(call[2].p)
    /\ call[2].p /= self.control_points
    /\ ret[1] = Bezier_eval(self, call[1].t)
    /\ ret[1] /= self.control_points[1]

=============================================================================
